---- MODULE Spec2Model ----
(***************************************************************************)
(* Model of the research-assistant back end: the Enhanced Orchestrator's   *)
(* task planner and parallel executor, the process_query generators of the *)
(* Standard, Simple and Enhanced orchestrators, the Standard step loop,    *)
(* the tiered Cache, the WebSocket gateways and the agents' dispatch; and  *)
(* of the Pipeline: its /query route, confidence scores and text chunking. *)
(* Each component has its own specification over a shared set of state     *)
(* variables; the variables of the components a specification does not     *)
(* exercise stay at their initial value.                                   *)
(***************************************************************************)
EXTENDS Integers, Sequences, FiniteSets, TLC

VARIABLES
    \* ---- TaskPlanner._create_execution_groups ----
    tasks,          \* the task list handed to the planner: Seq([id, dependencies])
    groups,         \* the local `groups`
    executed,       \* the local `executed`
    planPc          \* "loop" | "done"

planVars == <<tasks, groups, executed, planPc>>

VARIABLES
    \* ---- ParallelExecutor.execute / _execute_task_with_retry ----
    plan,           \* plan["parallel_groups"]: Seq(Seq(task))
    max_retries,    \* Task.max_retries of the plan's tasks
    max_concurrent, \* ParallelExecutor.max_concurrent
    permits,        \* free slots of ParallelExecutor.semaphore
    execPc,         \* execute(): "idle" | "for" | "gather" | "done"
    groupIdx,       \* execute(): position of `for group_idx, group in ...`
    tpc,            \* per task coroutine: "new" | "acquire" | "attempt" | "sleep" | "returned" | "raised"
    attempt,        \* per task: the loop variable `attempt`
    calls,          \* per task: number of executor.execute(...) calls made
    slept,          \* per task: the asyncio.sleep durations, in order
    outcome,        \* per task: what the coroutine returned or raised
    results,        \* execute(): the local `results` dict
    others,         \* tasks of other execute() calls on this executor that hold the semaphore
    taskObj         \* per task: the Task object's result and error fields

execVars == <<plan, max_retries, max_concurrent, permits, execPc, groupIdx,
              tpc, attempt, calls, slept, outcome, results, others, taskObj>>

VARIABLES
    \* ---- process_query of the Standard, Simple and Enhanced orchestrators ----
    orchKind,        \* which orchestrator the application was started with
    rpc,             \* per process_query call: where its generator is suspended
    req,             \* per call: the request dict
    events,          \* per call: the events yielded to the consumer, in order
    stepIdx,         \* per call (Standard): index of the plan step in progress
    agentCalls,      \* per call: number of agent.execute invocations
    active_sessions, \* Standard / Simple: self.active_sessions
    cache,           \* Enhanced: self.cache
    caught,          \* per call: message of the exception the outermost handler caught
    swallowed,       \* per call: exceptions handled below the outermost handler
    firstResult,     \* per cache key: payload of the first result event emitted for it
    previous_results, \* per call: the `results` list of the step loop, `result` (Simple)
    contexts,        \* per call: the `context` handed to each agent.execute, in order
    step_plan        \* plan["steps"] of a plan run step by step through _execute_step

stepVars == <<previous_results, contexts, step_plan>>

VARIABLES
    \* ---- the Simple orchestrator's SimpleSearchAgent ----
    search_session,  \* agent.session: "none" (None) | "open" | "closed"
    using,           \* the calls whose arXiv request is in flight on it
    issued_on        \* per call: the state of the session its request was
                     \* issued on, "" before the request

simVars == <<search_session, using, issued_on>>

orchVars == <<orchKind, rpc, req, events, stepIdx, agentCalls, active_sessions,
              cache, caught, swallowed, firstResult, stepVars, simVars>>

VARIABLES
    \* ---- Cache ----
    now,             \* datetime.now(), in seconds
    redisState,      \* "none": no redis_client; "up" / "down": its calls answer / raise
    redis,           \* the remote store: full key -> entry
    local_cache,     \* self.local_cache
    files,           \* the *.cache files of cache_dir
    got,             \* what the get just made returned, and from where
    lastSet,         \* the last set with a ttl that returned True
    sets             \* number of set calls made

cacheVars == <<now, redisState, redis, local_cache, files, got, lastSet, sets>>

VARIABLES
    \* ---- the /ws handlers of app/main.py and app/main_enhanced.py ----
    gateway,            \* which application serves the connection
    wsPc,               \* the handler: "idle" | "receive" | "stream" | "closed"
    wsMsg,              \* what the last receive_text gave the handler
    wsReq,              \* the request parsed from the last message
    wsRun,              \* the process_query call the handler iterates over
    wsForwarded,        \* number of events of that call sent on to the client
    wsSent,             \* event types sent to the client since the last receive
    wsFailures,         \* earlier messages of the connection answered with an error event
    active_connections, \* main_enhanced: the keys of ConnectionManager.active_connections
    session_data        \* main_enhanced: the keys of ConnectionManager.session_data

wsVars == <<gateway, wsPc, wsMsg, wsReq, wsRun, wsForwarded, wsSent, wsFailures,
            active_connections, session_data>>

VARIABLES
    \* ---- the agents' execute(action, parameters) ----
    executes,        \* number of execute calls made
    openai_calls,    \* number of self.client.chat.completions.create calls made
    http_requests,   \* number of self.session.get calls made
    session,         \* per agent that keeps one: self.session
    last             \* the last execute call and how it ended

agentVars == <<executes, openai_calls, http_requests, session, last>>

VARIABLES
    \* ---- the Pipeline's POST /query ----
    body,            \* request.get_json() of the request being served
    pipePc,          \* "idle" | "search" | "done"
    urlIdx,          \* position of web_search's `for url in mock_urls[...]`
    documents,       \* web_search's local `documents`
    web_sources,     \* web_search's local `sources`
    response         \* the HTTP response of the route

pipeVars == <<body, pipePc, urlIdx, documents, web_sources, response>>

VARIABLES
    \* ---- the confidence calculations ----
    conf_input,      \* the argument of the last _calculate_confidence call
    confidence       \* what it returned, in units of 1/ConfUnit

confVars == <<conf_input, confidence>>

VARIABLES
    \* ---- TextCleaner.chunk_text ----
    words,           \* number of words of the text, len(text.split())
    chunkIdx,        \* the loop variable i
    chunks,          \* the local `chunks`
    chunkPc          \* "loop" | "done"

chunkVars == <<words, chunkIdx, chunks, chunkPc>>

VARIABLES
    \* ---- main_enhanced's POST /api/research ----
    restPc,          \* "off" | "idle" | "stream" | "responded"
    restReq,         \* query_data
    restRun,         \* the process_query call the route iterates over
    restFormat,      \* how formatting this request's result ends
    rest_results,    \* research_query: the local `results`, by event type
    formatted_response, \* whether the local `formatted_response` is set
    http_status      \* the status of the HTTP response, 0 before it

restVars == <<restPc, restReq, restRun, restFormat, rest_results,
              formatted_response, http_status>>

VARIABLES
    \* ---- the Pipeline orchestrator's VectorStore across run_pipeline calls ----
    pipeline_runs,   \* number of run_pipeline calls that have returned
    vs_documents,    \* self.documents (and the rows of self.index): per
                     \* document, the run that indexed it
    vector_results   \* run_pipeline's local `vector_results` of the last run

vectorVars == <<pipeline_runs, vs_documents, vector_results>>

fnVars == <<pipeVars, confVars, chunkVars, restVars, vectorVars>>

nonPlanVars == <<execVars, orchVars, cacheVars, wsVars, agentVars, fnVars>>
nonExecVars == <<planVars, orchVars, cacheVars, wsVars, agentVars, fnVars>>
nonOrchVars == <<planVars, execVars, cacheVars, wsVars, agentVars, fnVars>>
nonCacheVars == <<planVars, execVars, orchVars, wsVars, agentVars, fnVars>>
nonWsVars == <<planVars, execVars, cacheVars, agentVars, fnVars>>
nonAgentVars == <<planVars, execVars, orchVars, cacheVars, wsVars, fnVars>>
backendVars == <<planVars, execVars, orchVars, cacheVars, wsVars, agentVars>>
nonPipeVars == <<backendVars, confVars, chunkVars, restVars, vectorVars>>
nonConfVars == <<backendVars, pipeVars, chunkVars, restVars, vectorVars>>
nonChunkVars == <<backendVars, pipeVars, confVars, restVars, vectorVars>>
nonRestVars == <<planVars, execVars, cacheVars, wsVars, agentVars,
                 pipeVars, confVars, chunkVars, vectorVars>>
nonVectorVars == <<backendVars, pipeVars, confVars, chunkVars, restVars>>

vars == <<backendVars, fnVars>>

(***************************************************************************)
(* Bounds                                                                  *)
(***************************************************************************)
MaxTasks == 3
MaxExecTasks == 3
MaxRuns == 2
MaxEnhRuns == 3
MaxTime == 2
MaxSets == 2
MaxPings == 1
MaxPapers == 2
MaxExecutes == 3
MaxOthers == 2
MaxSteps == 3
MaxEntities == 11
MaxDocs == 4
MaxSources == 11
MaxQuality == 20
MaxWords == 2700
MaxPipelineRuns == 3

(***************************************************************************)
(* TaskPlanner                                                             *)
(***************************************************************************)
Ids == {"A", "B", "C"}

Task(id, deps) == [id |-> id, dependencies |-> deps]

\* The dependency set of the planner's test.
TestTasks ==
    << Task("A", {}), Task("B", {}), Task("C", {"A"}),
       Task("D", {"B"}), Task("E", {"C", "D"}) >>

TaskIds(ts) == {ts[i].id : i \in 1..Len(ts)}

\* Task lists with pairwise distinct ids; a dependency may name any id,
\* also one that is not in the list, the task itself, or a cycle.
TaskLists ==
    UNION { { ts \in [1..n -> [id : Ids, dependencies : SUBSET Ids]] :
                \A i, j \in 1..n : i # j => ts[i].id # ts[j].id }
            : n \in 1..MaxTasks }

\* The body of `for task in tasks:` from position i on; `executed` grows
\* inside the pass, so a task later in the list sees the ids added before it.
RECURSIVE ForTasks(_, _, _, _)
ForTasks(ts, i, group, done) ==
    IF i > Len(ts) THEN [group |-> group, executed |-> done]
    ELSE IF ts[i].id \notin done
            /\ (ts[i].dependencies = {} \/ ts[i].dependencies \subseteq done)
         THEN ForTasks(ts, i + 1, Append(group, ts[i].id), done \cup {ts[i].id})
         ELSE ForTasks(ts, i + 1, group, done)

PlanStart ==
    /\ tasks \in TaskLists \cup {TestTasks}
    /\ groups = << >>
    /\ executed = {}
    /\ planPc = "loop"

PlanIdle ==
    /\ tasks = << >>
    /\ groups = << >>
    /\ executed = {}
    /\ planPc = "done"

\* One iteration of `while len(executed) < len(tasks):`.
PlanPass ==
    /\ planPc = "loop"
    /\ Cardinality(executed) < Len(tasks)
    /\ LET r == ForTasks(tasks, 1, << >>, executed) IN
         /\ executed' = r.executed
         /\ groups' = IF r.group # << >> THEN Append(groups, r.group) ELSE groups
    /\ UNCHANGED <<tasks, planPc, nonPlanVars>>

\* The loop condition fails: `return groups`.
PlanReturn ==
    /\ planPc = "loop"
    /\ ~(Cardinality(executed) < Len(tasks))
    /\ planPc' = "done"
    /\ UNCHANGED <<tasks, groups, executed, nonPlanVars>>

PlanNext == PlanPass \/ PlanReturn

(***************************************************************************)
(* ParallelExecutor                                                        *)
(***************************************************************************)
DefaultMaxRetries == 3
DefaultMaxConcurrent == 5

ExecTasks == 1..MaxExecTasks

None == [tag |-> "none", kind |-> "none", attempt |-> 0]
Absent == [tag |-> "absent", kind |-> "none", attempt |-> 0]
Result(a) == [tag |-> "result", kind |-> "none", attempt |-> a]
Failure(k, a) == [tag |-> "exception", kind |-> k, attempt |-> a]
\* results[task.id] = {"error": str(result)}
ErrorEntry(e) == [tag |-> "error", kind |-> e.kind, attempt |-> e.attempt]

\* What makes an attempt fail: asyncio.wait_for's timeout, or an exception
\* of the agent (a missing executor's ValueError included).
FailureKinds == {"timeout", "exception"}

\* The plans: tasks 1..n in list order, cut into consecutive groups.
GroupNumberings(n) ==
    { f \in [1..n -> 1..n] :
        f[1] = 1 /\ \A i \in 2..n : f[i] \in {f[i - 1], f[i - 1] + 1} }

PlanOf(n, f) ==
    [k \in 1..f[n] |-> SelectSeq([i \in 1..n |-> i], LAMBDA i : f[i] = k)]

Plans == UNION { { PlanOf(n, f) : f \in GroupNumberings(n) } : n \in 1..MaxExecTasks }

Members(group) == {group[i] : i \in 1..Len(group)}

Planned == UNION {Members(plan[k]) : k \in 1..Len(plan)}

\* Task: result and error default to None.
NewTask == [result |-> None, error |-> None]

ExecStart ==
    /\ plan \in Plans
    /\ max_retries \in 0..DefaultMaxRetries
    /\ max_concurrent \in {2, DefaultMaxConcurrent}
    /\ permits = max_concurrent
    /\ execPc = "for"
    /\ groupIdx = 1
    /\ tpc = [t \in ExecTasks |-> "new"]
    /\ attempt = [t \in ExecTasks |-> 0]
    /\ calls = [t \in ExecTasks |-> 0]
    /\ slept = [t \in ExecTasks |-> << >>]
    /\ outcome = [t \in ExecTasks |-> None]
    /\ results = [t \in ExecTasks |-> Absent]
    /\ others = 0
    /\ taskObj = [t \in ExecTasks |-> NewTask]

ExecIdle ==
    /\ plan = << >>
    /\ max_retries = DefaultMaxRetries
    /\ max_concurrent = DefaultMaxConcurrent
    /\ permits = DefaultMaxConcurrent
    /\ execPc = "idle"
    /\ groupIdx = 1
    /\ tpc = [t \in ExecTasks |-> "new"]
    /\ attempt = [t \in ExecTasks |-> 0]
    /\ calls = [t \in ExecTasks |-> 0]
    /\ slept = [t \in ExecTasks |-> << >>]
    /\ outcome = [t \in ExecTasks |-> None]
    /\ results = [t \in ExecTasks |-> Absent]
    /\ others = 0
    /\ taskObj = [t \in ExecTasks |-> NewTask]

\* execute(): the coroutines of the next group are created and handed to
\* asyncio.gather.
ExecGroupStart ==
    /\ execPc = "for"
    /\ groupIdx <= Len(plan)
    /\ tpc' = [t \in ExecTasks |->
                 IF t \in Members(plan[groupIdx]) THEN "acquire" ELSE tpc[t]]
    /\ execPc' = "gather"
    /\ UNCHANGED <<plan, max_retries, max_concurrent, permits, groupIdx,
                   attempt, calls, slept, outcome, results, others, taskObj, nonExecVars>>

LockedNever(value) == FALSE

\* asyncio.Semaphore: acquire() waits while no slot is free.
Locked(value) == value <= 0

\* `async with self.semaphore:` is entered and the retry loop starts; with
\* max_retries = 0 the loop body never runs and the coroutine returns None.
Acquire(t) ==
    /\ tpc[t] = "acquire"
    /\ ~Locked(permits)
    /\ IF max_retries = 0
       THEN /\ tpc' = [tpc EXCEPT ![t] = "returned"]
            /\ outcome' = [outcome EXCEPT ![t] = None]
            /\ UNCHANGED <<permits, calls>>
       ELSE /\ tpc' = [tpc EXCEPT ![t] = "attempt"]
            /\ permits' = permits - 1
            /\ calls' = [calls EXCEPT ![t] = @ + 1]
            /\ UNCHANGED outcome
    /\ UNCHANGED <<plan, max_retries, max_concurrent, execPc, groupIdx,
                   attempt, slept, results, others, taskObj, nonExecVars>>

\* executor.execute(...) returns within the timeout: `return result`.
AttemptSucceeds(t) ==
    /\ tpc[t] = "attempt"
    /\ tpc' = [tpc EXCEPT ![t] = "returned"]
    /\ outcome' = [outcome EXCEPT ![t] = Result(attempt[t])]
    /\ taskObj' = [taskObj EXCEPT ![t].result = Result(attempt[t])]
    /\ permits' = permits + 1
    /\ UNCHANGED <<plan, max_retries, max_concurrent, execPc, groupIdx,
                   attempt, calls, slept, results, others, nonExecVars>>

\* `if attempt == task.max_retries - 1: raise`
LastAttempt(a, mr) == a = mr - 1

BackoffDoubled(a) == 2 * a

\* `await asyncio.sleep(2 ** attempt)`
Backoff(a) == 2 ^ a

\* The attempt times out or raises: re-raise on the last attempt, else sleep.
AttemptFails(t, kind) ==
    /\ tpc[t] = "attempt"
    /\ IF LastAttempt(attempt[t], max_retries)
       THEN /\ tpc' = [tpc EXCEPT ![t] = "raised"]
            /\ outcome' = [outcome EXCEPT ![t] = Failure(kind, attempt[t])]
            /\ permits' = permits + 1
            /\ UNCHANGED slept
       ELSE /\ tpc' = [tpc EXCEPT ![t] = "sleep"]
            /\ slept' = [slept EXCEPT ![t] = Append(@, Backoff(attempt[t]))]
            /\ UNCHANGED <<outcome, permits>>
    /\ UNCHANGED <<plan, max_retries, max_concurrent, execPc, groupIdx,
                   attempt, calls, results, others, taskObj, nonExecVars>>

\* The sleep ends: the next iteration of `for attempt in range(...)`.
NextAttempt(t) ==
    /\ tpc[t] = "sleep"
    /\ tpc' = [tpc EXCEPT ![t] = "attempt"]
    /\ attempt' = [attempt EXCEPT ![t] = @ + 1]
    /\ calls' = [calls EXCEPT ![t] = @ + 1]
    /\ UNCHANGED <<plan, max_retries, max_concurrent, permits, execPc, groupIdx,
                   slept, outcome, results, others, taskObj, nonExecVars>>

GatherFirstCompleted(group) ==
    \E t \in Members(group) : tpc[t] \in {"returned", "raised"}

\* `await asyncio.gather(*group_tasks, return_exceptions=True)` returns when
\* every coroutine of the group has returned or raised.
GatherDone(group) ==
    \A t \in Members(group) : tpc[t] \in {"returned", "raised"}

ProcessResultsNoErrors(group, res) ==
    [t \in ExecTasks |->
        IF t \in Members(group) /\ outcome[t].tag # "exception"
        THEN outcome[t] ELSE res[t]]

\* `for task, result in zip(group, group_results):`
ProcessResults(group, res) ==
    [t \in ExecTasks |->
        IF t \in Members(group)
        THEN IF outcome[t].tag = "exception" THEN ErrorEntry(outcome[t])
             ELSE outcome[t]
        ELSE res[t]]

\* gather returns; the group's results are recorded; on to the next group.
ExecGather ==
    /\ execPc = "gather"
    /\ GatherDone(plan[groupIdx])
    /\ results' = ProcessResults(plan[groupIdx], results)
    /\ groupIdx' = groupIdx + 1
    /\ execPc' = "for"
    /\ UNCHANGED <<plan, max_retries, max_concurrent, permits,
                   tpc, attempt, calls, slept, outcome, others, taskObj, nonExecVars>>

\* The loop over the groups is over: `return results`.
ExecReturn ==
    /\ execPc = "for"
    /\ groupIdx > Len(plan)
    /\ execPc' = "done"
    /\ UNCHANGED <<plan, max_retries, max_concurrent, permits, groupIdx,
                   tpc, attempt, calls, slept, outcome, results, others, taskObj, nonExecVars>>

\* A task of another execute() call running on the same executor enters
\* `async with self.semaphore:`.
OtherAcquire ==
    /\ others < MaxOthers
    /\ ~Locked(permits)
    /\ permits' = permits - 1
    /\ others' = others + 1
    /\ UNCHANGED <<plan, max_retries, max_concurrent, execPc, groupIdx, tpc,
                   attempt, calls, slept, outcome, results, taskObj, nonExecVars>>

\* Such a task returns or raises and leaves the `async with` block.
OtherRelease ==
    /\ others > 0
    /\ permits' = permits + 1
    /\ others' = others - 1
    /\ UNCHANGED <<plan, max_retries, max_concurrent, execPc, groupIdx, tpc,
                   attempt, calls, slept, outcome, results, taskObj, nonExecVars>>

ExecNext ==
    \/ OtherAcquire
    \/ OtherRelease
    \/ ExecGroupStart
    \/ \E t \in ExecTasks : Acquire(t)
    \/ \E t \in ExecTasks : AttemptSucceeds(t)
    \/ \E t \in ExecTasks, kind \in FailureKinds : AttemptFails(t, kind)
    \/ \E t \in ExecTasks : NextAttempt(t)
    \/ ExecGather
    \/ ExecReturn

(***************************************************************************)
(* process_query: requests, events and the state shared by the calls       *)
(***************************************************************************)
RunIds == 1..MaxEnhRuns

\* request["query"] is None
NoQuery == "<None>"

\* A session_id that cannot be a dict key (a JSON list or object).
UnhashableId == 0

\* The session ids that can be dict keys.
SessionIds == {1, 2}

\* The query and action of a request; databases and max_results are left at
\* their defaults.
QueryRequests ==
    { [query |-> "Deep Learning", action |-> "search"],
      [query |-> " deep learning", action |-> "search"],
      [query |-> "Deep Learning", action |-> "summarize"],
      [query |-> NoQuery, action |-> "search"] }

NoRequest == [session_id |-> UnhashableId, query |-> "", action |-> ""]

Request(sid, q) == [session_id |-> sid, query |-> q.query, action |-> q.action]

\* query.lower().strip()
Normalize(q) ==
    CASE q = "Deep Learning" -> "deep learning"
      [] q = " deep learning" -> "deep learning"
      [] OTHER -> q

\* What two requests must agree on to be the same query: the lower-cased
\* trimmed query and the action (databases and max_results being equal).
RequestKey(rq) == <<Normalize(rq.query), rq.action>>

CacheKeyRaw(rq) == <<rq.query, rq.action>>

\* QueryAnalyzer._generate_cache_key
CacheKey(rq) == <<Normalize(rq.query), rq.action>>

\* Every key a lookup or a store can use.
CacheKeys ==
    {RequestKey(q) : q \in QueryRequests} \cup {CacheKeyRaw(q) : q \in QueryRequests}

NoData == [src |-> 0, info |-> "", papers |-> 0]

\* The final_result of a call: `src` tells the payloads of the calls apart,
\* `papers` is the paper count its synthesis states.
FinalResult(r, n) == [src |-> r, info |-> "final_result", papers |-> n]

\* _create_event; the message is kept as the parts it is formatted from.
Event(type, agent, status, message, data) ==
    [event_type |-> type, agent |-> agent, status |-> status,
     message |-> message, data |-> data]

EventTypes(r) == [i \in 1..Len(events[r]) |-> events[r][i].event_type]

HasEvent(r, type) == \E i \in 1..Len(events[r]) : events[r][i].event_type = type

OrchStart ==
    /\ orchKind \in {"standard", "simple", "enhanced"}
    /\ rpc = [r \in RunIds |-> "idle"]
    /\ req = [r \in RunIds |-> NoRequest]
    /\ events = [r \in RunIds |-> << >>]
    /\ stepIdx = [r \in RunIds |-> 0]
    /\ agentCalls = [r \in RunIds |-> 0]
    /\ active_sessions = [s \in SessionIds |-> 0]
    /\ cache = [k \in CacheKeys |-> NoData]
    /\ caught = [r \in RunIds |-> ""]
    /\ swallowed = [r \in RunIds |-> {}]
    /\ firstResult = [k \in CacheKeys |-> NoData]
    /\ previous_results = [r \in RunIds |-> << >>]
    /\ contexts = [r \in RunIds |-> << >>]
    /\ step_plan = << >>
    /\ search_session = "none"
    /\ using = {}
    /\ issued_on = [r \in RunIds |-> ""]

OrchIdle ==
    /\ orchKind = "none"
    /\ rpc = [r \in RunIds |-> "idle"]
    /\ req = [r \in RunIds |-> NoRequest]
    /\ events = [r \in RunIds |-> << >>]
    /\ stepIdx = [r \in RunIds |-> 0]
    /\ agentCalls = [r \in RunIds |-> 0]
    /\ active_sessions = [s \in SessionIds |-> 0]
    /\ cache = [k \in CacheKeys |-> NoData]
    /\ caught = [r \in RunIds |-> ""]
    /\ swallowed = [r \in RunIds |-> {}]
    /\ firstResult = [k \in CacheKeys |-> NoData]
    /\ previous_results = [r \in RunIds |-> << >>]
    /\ contexts = [r \in RunIds |-> << >>]
    /\ step_plan = << >>
    /\ search_session = "none"
    /\ using = {}
    /\ issued_on = [r \in RunIds |-> ""]

InFlight == {r \in RunIds : rpc[r] \notin {"idle", "done", "propagated"}}

\* Calls are numbered in the order in which they begin; at most MaxRuns of
\* them are in flight at once.
MayBegin(r) ==
    /\ rpc[r] = "idle"
    /\ IF r = 1 THEN TRUE ELSE rpc[r - 1] # "idle"
    /\ Cardinality(InFlight) < MaxRuns

Emit(r, ev) == events' = [events EXCEPT ![r] = Append(@, ev)]

Goto(r, label) == rpc' = [rpc EXCEPT ![r] = label]

\* The call is over: what was local to it no longer exists.
Release(r) ==
    /\ req' = [req EXCEPT ![r] = NoRequest]
    /\ events' = [events EXCEPT ![r] = << >>]
    /\ stepIdx' = [stepIdx EXCEPT ![r] = 0]
    /\ agentCalls' = [agentCalls EXCEPT ![r] = 0]
    /\ caught' = [caught EXCEPT ![r] = ""]
    /\ swallowed' = [swallowed EXCEPT ![r] = {}]
    /\ previous_results' = [previous_results EXCEPT ![r] = << >>]
    /\ contexts' = [contexts EXCEPT ![r] = << >>]
    /\ UNCHANGED step_plan

(***************************************************************************)
(* EnhancedOrchestrator.process_query                                      *)
(***************************************************************************)
EnhRequests == {Request(1, q) : q \in QueryRequests}

EnhOuterReraise(r, msg) ==
    /\ Goto(r, "propagated")
    /\ caught' = [caught EXCEPT ![r] = msg]
    /\ UNCHANGED events

\* `except Exception as e:` of process_query: one error event with str(e)
\* as its message, then the generator ends.
EnhOuterExcept(r, msg) ==
    /\ Emit(r, Event("error", "orchestrator", "error", <<msg>>, NoData))
    /\ Goto(r, "error_yielded")
    /\ caught' = [caught EXCEPT ![r] = msg]

\* The call begins: QueryAnalyzer.analyze, in which query.lower() raises when
\* the query is None and a failed entity extraction is replaced by empty
\* entities inside _extract_entities; the analysis event is yielded.
EnhStart(r, rq) ==
    /\ orchKind = "enhanced"
    /\ MayBegin(r)
    /\ req' = [req EXCEPT ![r] = rq]
    /\ IF rq.query = NoQuery
       THEN EnhOuterExcept(r, "'NoneType' object has no attribute 'lower'")
       ELSE /\ Emit(r, Event("analysis", "orchestrator", "completed", << >>, NoData))
            /\ Goto(r, "analysis_yielded")
            /\ UNCHANGED caught
    /\ UNCHANGED <<orchKind, stepIdx, agentCalls, active_sessions, cache,
                   swallowed, firstResult, stepVars, simVars, nonOrchVars>>

\* `if analysis.cache_key in self.cache:` yields cache_hit with the stored
\* payload; otherwise create_plan runs and the plan event is yielded.
EnhCacheCheck(r) ==
    /\ orchKind = "enhanced"
    /\ rpc[r] = "analysis_yielded"
    /\ \/ /\ cache[CacheKey(req[r])] # NoData
          /\ Emit(r, Event("cache_hit", "orchestrator", "completed", << >>,
                           cache[CacheKey(req[r])]))
          /\ Goto(r, "hit_yielded")
          /\ UNCHANGED caught
       \/ /\ cache[CacheKey(req[r])] = NoData
          /\ Emit(r, Event("plan", "orchestrator", "completed", << >>, NoData))
          /\ Goto(r, "plan_yielded")
          /\ UNCHANGED caught
       \/ /\ cache[CacheKey(req[r])] = NoData
          /\ EnhOuterExcept(r, "create_plan failed")
    /\ UNCHANGED <<orchKind, req, stepIdx, agentCalls, active_sessions, cache,
                   swallowed, firstResult, stepVars, simVars, nonOrchVars>>

\* `await self.parallel_executor.execute(...)`: the planned agents are
\* invoked and execute returns its results map, in which a task that failed
\* for good is an error entry (ProcessResults), never an exception; the
\* execution event is yielded.
EnhExecute(r, agent) ==
    /\ orchKind = "enhanced"
    /\ rpc[r] = "plan_yielded"
    /\ agentCalls' = [agentCalls EXCEPT ![r] = @ + 1]
    /\ swallowed' = IF agent = "failed"
                    THEN [swallowed EXCEPT ![r] = @ \cup {"agent failed"}]
                    ELSE swallowed
    /\ Emit(r, Event("execution", "orchestrator", "completed", << >>, NoData))
    /\ Goto(r, "execution_yielded")
    /\ UNCHANGED <<orchKind, req, stepIdx, active_sessions, cache,
                   caught, firstResult, stepVars, simVars, nonOrchVars>>

\* quality_scorer.score, then the scoring event.
EnhScore(r) ==
    /\ orchKind = "enhanced"
    /\ rpc[r] = "execution_yielded"
    /\ \/ /\ Emit(r, Event("scoring", "orchestrator", "completed", << >>, NoData))
          /\ Goto(r, "scoring_yielded")
          /\ UNCHANGED caught
       \/ EnhOuterExcept(r, "score failed")
    /\ UNCHANGED <<orchKind, req, stepIdx, agentCalls, active_sessions, cache,
                   swallowed, firstResult, stepVars, simVars, nonOrchVars>>

StoreSkipped(c, key, payload) == c

\* self.cache[analysis.cache_key] = final_result
StoreResult(c, key, payload) == [c EXCEPT ![key] = payload]

\* The executor's results map of the call holds error entries only.
TasksFailed(r) == "agent failed" \in swallowed[r]

EnhResultGuarded(r) ==
    /\ orchKind = "enhanced"
    /\ rpc[r] = "scoring_yielded"
    /\ LET payload == FinalResult(r, 0)
           key == RequestKey(req[r])
       IN /\ cache' = IF TasksFailed(r) THEN cache
                       ELSE StoreResult(cache, CacheKey(req[r]), payload)
          /\ Emit(r, Event("result", "orchestrator", "completed", << >>, payload))
          /\ firstResult' = IF firstResult[key] = NoData
                            THEN [firstResult EXCEPT ![key] = payload]
                            ELSE firstResult
    /\ Goto(r, "result_yielded")
    /\ UNCHANGED <<orchKind, req, stepIdx, agentCalls, active_sessions,
                   caught, swallowed, stepVars, simVars, nonOrchVars>>

\* _synthesize_results returns (with the LLM's synthesis, or the templated
\* one when the LLM call failed); the final result is cached and the result
\* event is yielded.
EnhResult(r) ==
    /\ orchKind = "enhanced"
    /\ rpc[r] = "scoring_yielded"
    /\ LET payload == FinalResult(r, 0)
           key == RequestKey(req[r])
       IN /\ cache' = StoreResult(cache, CacheKey(req[r]), payload)
          /\ Emit(r, Event("result", "orchestrator", "completed", << >>, payload))
          /\ firstResult' = IF firstResult[key] = NoData
                            THEN [firstResult EXCEPT ![key] = payload]
                            ELSE firstResult
    /\ Goto(r, "result_yielded")
    /\ UNCHANGED <<orchKind, req, stepIdx, agentCalls, active_sessions,
                   caught, swallowed, stepVars, simVars, nonOrchVars>>

\* The metrics event.
EnhMetrics(r) ==
    /\ orchKind = "enhanced"
    /\ rpc[r] = "result_yielded"
    /\ Emit(r, Event("metrics", "orchestrator", "info", << >>, NoData))
    /\ Goto(r, "metrics_yielded")
    /\ UNCHANGED <<orchKind, req, stepIdx, agentCalls, active_sessions, cache,
                   caught, swallowed, firstResult, stepVars, simVars, nonOrchVars>>

\* The generator is resumed after its last event and ends; its frame, and
\* with it the per-call state, is gone.
EnhEnd(r) ==
    /\ orchKind = "enhanced"
    /\ rpc[r] \in {"hit_yielded", "metrics_yielded", "error_yielded"}
    /\ Goto(r, "done")
    /\ Release(r)
    /\ UNCHANGED <<orchKind, active_sessions, cache, firstResult, simVars,
                   nonOrchVars>>

EnhNext ==
    \E r \in 1..MaxEnhRuns :
        \/ \E rq \in EnhRequests : EnhStart(r, rq)
        \/ EnhCacheCheck(r)
        \/ \E agent \in {"ok", "failed"} : EnhExecute(r, agent)
        \/ EnhScore(r)
        \/ EnhResult(r)
        \/ EnhMetrics(r)
        \/ EnhEnd(r)

(***************************************************************************)
(* ResearchOrchestrator.process_query (Standard)                           *)
(***************************************************************************)
StdRequests ==
    { Request(sid, q) : sid \in SessionIds \cup {UnhashableId},
                        q \in { x \in QueryRequests : x.query # " deep learning" } }

\* plan["steps"] of _create_execution_plan
Steps(rq) ==
    IF rq.action = "summarize" THEN <<"search", "summarizer">> ELSE <<"search">>

\* f"Error: {str(e)}"
ErrorMessage(msg) == <<"Error: ", msg>>

Hashable(sid) == sid # UnhashableId

CleanupSkipped(sessions, sid) == sessions

\* finally: `if session_id in self.active_sessions: del ...`
Cleanup(sessions, sid) == [sessions EXCEPT ![sid] = 0]

\* `except Exception as e:` of process_query: the error event.
StdOuterExcept(r, msg) ==
    /\ Emit(r, Event("error", "orchestrator", "error", ErrorMessage(msg), NoData))
    /\ Goto(r, "error_yielded")
    /\ caught' = [caught EXCEPT ![r] = msg]

\* The call begins: the session entry is written (a TypeError when the
\* session_id cannot be a key) and the start event is yielded.
StdStart(r, rq) ==
    /\ orchKind = "standard"
    /\ MayBegin(r)
    /\ req' = [req EXCEPT ![r] = rq]
    /\ IF Hashable(rq.session_id)
       THEN /\ active_sessions' = [active_sessions EXCEPT ![rq.session_id] = r]
            /\ Emit(r, Event("start", "orchestrator", "started", << >>, NoData))
            /\ Goto(r, "start_yielded")
            /\ UNCHANGED caught
       ELSE /\ StdOuterExcept(r, "unhashable type: 'list'")
            /\ UNCHANGED active_sessions
    /\ UNCHANGED <<orchKind, stepIdx, agentCalls, cache, swallowed, firstResult,
                   stepVars, simVars, nonOrchVars>>

\* _create_execution_plan (query.lower() raises when the query is None),
\* then the plan event.
StdPlan(r) ==
    /\ orchKind = "standard"
    /\ rpc[r] = "start_yielded"
    /\ IF req[r].query = NoQuery
       THEN StdOuterExcept(r, "'NoneType' object has no attribute 'lower'")
       ELSE /\ Emit(r, Event("plan", "orchestrator", "completed", << >>, NoData))
            /\ Goto(r, "plan_yielded")
            /\ UNCHANGED caught
    /\ UNCHANGED <<orchKind, req, stepIdx, agentCalls, active_sessions, cache,
                   swallowed, firstResult, stepVars, simVars, nonOrchVars>>

\* `self.active_sessions[session_id]["events"].append(event)` after a step's
\* event: a KeyError when the entry is no longer in the map.
AppendRaises(r) == active_sessions[req[r].session_id] = 0

\* The next plan step begins: _execute_step yields "started".  Reached from
\* the plan event, or from the last event of the previous step (after the
\* append of that event).
StdStepStart(r) ==
    /\ orchKind = "standard"
    /\ rpc[r] \in {"plan_yielded", "step_yielded"}
    /\ stepIdx[r] < Len(Steps(req[r]))
    /\ IF rpc[r] = "step_yielded" /\ AppendRaises(r)
       THEN /\ StdOuterExcept(r, "KeyError")
            /\ UNCHANGED stepIdx
       ELSE /\ stepIdx' = [stepIdx EXCEPT ![r] = @ + 1]
            /\ Emit(r, Event("agent_call", Steps(req[r])[stepIdx[r] + 1],
                             "started", << >>, NoData))
            /\ Goto(r, "step_started")
            /\ UNCHANGED caught
    /\ UNCHANGED <<orchKind, req, agentCalls, active_sessions, cache,
                   swallowed, firstResult, stepVars, simVars, nonOrchVars>>

\* The "started" event is appended to the session entry and agent.execute
\* is called; it returns ("completed" event) or raises (the step's own error
\* event, with str(e) as its message).
StdAgentCall(r, agent) ==
    /\ orchKind = "standard"
    /\ rpc[r] = "step_started"
    /\ IF AppendRaises(r)
       THEN /\ StdOuterExcept(r, "KeyError")
            /\ UNCHANGED <<agentCalls, swallowed>>
       ELSE /\ agentCalls' = [agentCalls EXCEPT ![r] = @ + 1]
            /\ IF agent = "ok"
               THEN /\ Emit(r, Event("agent_call", Steps(req[r])[stepIdx[r]],
                                     "completed", << >>, NoData))
                    /\ UNCHANGED swallowed
               ELSE /\ Emit(r, Event("error", Steps(req[r])[stepIdx[r]],
                                     "error", <<"agent failed">>, NoData))
                    /\ swallowed' = [swallowed EXCEPT ![r] = @ \cup {"agent failed"}]
            /\ Goto(r, "step_yielded")
            /\ UNCHANGED caught
    /\ UNCHANGED <<orchKind, req, stepIdx, active_sessions, cache, firstResult,
                   stepVars, simVars, nonOrchVars>>

\* After the last step: _synthesize_results (an LLM failure is replaced by
\* the templated synthesis), then the result event.
StdResult(r, llm) ==
    /\ orchKind = "standard"
    /\ rpc[r] = "step_yielded"
    /\ stepIdx[r] = Len(Steps(req[r]))
    /\ IF AppendRaises(r)
       THEN /\ StdOuterExcept(r, "KeyError")
            /\ UNCHANGED swallowed
       ELSE /\ Emit(r, Event("result", "orchestrator", "completed", << >>,
                             FinalResult(r, 0)))
            /\ swallowed' = IF llm = "failed"
                            THEN [swallowed EXCEPT ![r] = @ \cup {"llm failed"}]
                            ELSE swallowed
            /\ Goto(r, "result_yielded")
            /\ UNCHANGED caught
    /\ UNCHANGED <<orchKind, req, stepIdx, agentCalls, active_sessions, cache,
                   firstResult, stepVars, simVars, nonOrchVars>>

\* The generator is resumed after its last event: the finally block, whose
\* membership test raises the TypeError again for an unhashable session_id.
StdFinish(r) ==
    /\ orchKind = "standard"
    /\ rpc[r] \in {"result_yielded", "error_yielded"}
    /\ IF Hashable(req[r].session_id)
       THEN /\ active_sessions' = Cleanup(active_sessions, req[r].session_id)
            /\ Goto(r, "done")
       ELSE /\ Goto(r, "propagated")
            /\ UNCHANGED active_sessions
    /\ Release(r)
    /\ UNCHANGED <<orchKind, cache, firstResult, simVars, nonOrchVars>>

StdNext ==
    \E r \in 1..MaxRuns :
        \/ \E rq \in StdRequests : StdStart(r, rq)
        \/ StdPlan(r)
        \/ StdStepStart(r)
        \/ \E agent \in {"ok", "failed"} : StdAgentCall(r, agent)
        \/ \E llm \in {"ok", "failed"} : StdResult(r, llm)
        \/ StdFinish(r)

(***************************************************************************)
(* ResearchOrchestrator._execute_step over the steps of a plan             *)
(***************************************************************************)
\* The keys of self.agents and self.tools.
AgentNames == {"search", "summarizer", "citation", "graph"}

ToolNames == {"pdf_parser", "vector_search", "web_fetch", "stats"}

\* A plan step: step.get("agent"), step.get("tool"); "" stands for None.
Step(agent, tool) == [agent |-> agent, tool |-> tool]

PlanSteps ==
    { Step("search", ""), Step("summarizer", ""), Step("", "stats"),
      Step("writer", "") }

StepPlans == UNION { [1..n -> PlanSteps] : n \in 1..MaxSteps }

\* `agent_name and agent_name in self.agents`
IsAgentStep(step) == step.agent # "" /\ step.agent \in AgentNames

\* `tool_name and tool_name in self.tools`, tested when the first test fails
IsToolStep(step) == ~IsAgentStep(step) /\ step.tool # "" /\ step.tool \in ToolNames

StepTypeAgentOnly(step) == "agent_call"

\* The event_type of the step's started and completed events.
StepType(step) == IF IsAgentStep(step) THEN "agent_call" ELSE "tool_use"

\* The event's agent: agent_name in the first branch, tool_name in the second,
\* `agent_name or tool_name` in the error event.
StepName(step) == IF step.agent # "" THEN step.agent ELSE step.tool

StepResult(i) == [src |-> i, info |-> "step_result", papers |-> 0]

\* The run whose plan is executed step by step.
StepRun == 1

StepsStart ==
    /\ orchKind = "standard"
    /\ rpc = [r \in RunIds |-> IF r = StepRun THEN "for_step" ELSE "idle"]
    /\ req = [r \in RunIds |-> NoRequest]
    /\ events = [r \in RunIds |-> << >>]
    /\ stepIdx = [r \in RunIds |-> 0]
    /\ agentCalls = [r \in RunIds |-> 0]
    /\ active_sessions = [s \in SessionIds |-> 0]
    /\ cache = [k \in CacheKeys |-> NoData]
    /\ caught = [r \in RunIds |-> ""]
    /\ swallowed = [r \in RunIds |-> {}]
    /\ firstResult = [k \in CacheKeys |-> NoData]
    /\ previous_results = [r \in RunIds |-> << >>]
    /\ contexts = [r \in RunIds |-> << >>]
    /\ step_plan \in StepPlans
    /\ search_session = "none"
    /\ using = {}
    /\ issued_on = [r \in RunIds |-> ""]

\* `for step in plan["steps"]`: _execute_step begins for the next step and
\* yields its started event; a step that names no registered agent or tool
\* yields nothing.
ExecuteStepBegin ==
    /\ rpc[StepRun] = "for_step"
    /\ stepIdx[StepRun] < Len(step_plan)
    /\ LET step == step_plan[stepIdx[StepRun] + 1] IN
         IF IsAgentStep(step) \/ IsToolStep(step)
         THEN /\ Emit(StepRun, Event(StepType(step), StepName(step), "started",
                                     << >>, NoData))
              /\ Goto(StepRun, "step_started")
         ELSE UNCHANGED <<events, rpc>>
    /\ stepIdx' = [stepIdx EXCEPT ![StepRun] = @ + 1]
    /\ UNCHANGED <<orchKind, req, agentCalls, active_sessions, cache, caught,
                   swallowed, firstResult, stepVars, simVars, nonOrchVars>>

\* agent.execute / tool.execute is called with params["context"] =
\* previous_results; it returns (the result is appended, completed event) or
\* raises (error event, nothing appended).
ExecuteStepCall(ended) ==
    /\ rpc[StepRun] = "step_started"
    /\ LET i == stepIdx[StepRun]
           step == step_plan[i]
       IN /\ contexts' = [contexts EXCEPT
                            ![StepRun] = Append(@, previous_results[StepRun])]
          /\ IF ended = "returned"
             THEN /\ previous_results' =
                       [previous_results EXCEPT ![StepRun] = Append(@, StepResult(i))]
                  /\ Emit(StepRun, Event(StepType(step), StepName(step),
                                         "completed", << >>, StepResult(i)))
                  /\ UNCHANGED swallowed
             ELSE /\ Emit(StepRun, Event("error", StepName(step), "error",
                                         <<"failed">>, NoData))
                  /\ swallowed' = [swallowed EXCEPT ![StepRun] = @ \cup {"failed"}]
                  /\ UNCHANGED previous_results
    /\ agentCalls' = [agentCalls EXCEPT ![StepRun] = @ + 1]
    /\ Goto(StepRun, "for_step")
    /\ UNCHANGED <<orchKind, req, stepIdx, active_sessions, cache, caught,
                   firstResult, step_plan, simVars, nonOrchVars>>

\* The loop over the steps is over.
ExecuteStepsEnd ==
    /\ rpc[StepRun] = "for_step"
    /\ stepIdx[StepRun] = Len(step_plan)
    /\ Goto(StepRun, "steps_done")
    /\ UNCHANGED <<orchKind, req, events, stepIdx, agentCalls, active_sessions,
                   cache, caught, swallowed, firstResult, stepVars, simVars, nonOrchVars>>

StepsNext ==
    \/ ExecuteStepBegin
    \/ \E ended \in {"returned", "raised"} : ExecuteStepCall(ended)
    \/ ExecuteStepsEnd

(***************************************************************************)
(* SimpleResearchOrchestrator.process_query                                *)
(***************************************************************************)
SimRequests ==
    { Request(sid, q) : sid \in SessionIds \cup {UnhashableId},
                        q \in { x \in QueryRequests : x.action = "search"
                                                     /\ x.query # " deep learning" } }

SimOuterExceptInner(r, msg) ==
    /\ Emit(r, Event("error", "orchestrator", "error", ErrorMessage(msg), NoData))
    /\ Goto(r, "search_error_yielded")
    /\ caught' = [caught EXCEPT ![r] = msg]

\* `except Exception as e:` of process_query: the error event.
SimOuterExcept(r, msg) ==
    /\ Emit(r, Event("error", "orchestrator", "error", ErrorMessage(msg), NoData))
    /\ Goto(r, "error_yielded")
    /\ caught' = [caught EXCEPT ![r] = msg]

\* The call begins: the session entry is written and the start event is
\* yielded.
SimStart(r, rq) ==
    /\ orchKind = "simple"
    /\ MayBegin(r)
    /\ req' = [req EXCEPT ![r] = rq]
    /\ IF Hashable(rq.session_id)
       THEN /\ active_sessions' = [active_sessions EXCEPT ![rq.session_id] = r]
            /\ Emit(r, Event("start", "orchestrator", "started", << >>, NoData))
            /\ Goto(r, "start_yielded")
            /\ UNCHANGED caught
       ELSE /\ SimOuterExcept(r, "unhashable type: 'list'")
            /\ UNCHANGED active_sessions
    /\ UNCHANGED <<orchKind, stepIdx, agentCalls, cache, swallowed, firstResult,
                   stepVars, simVars, nonOrchVars>>

\* The plan event.
SimPlan(r) ==
    /\ orchKind = "simple"
    /\ rpc[r] = "start_yielded"
    /\ Emit(r, Event("plan", "orchestrator", "completed", << >>, NoData))
    /\ Goto(r, "plan_yielded")
    /\ UNCHANGED <<orchKind, req, stepIdx, agentCalls, active_sessions, cache,
                   caught, swallowed, firstResult, stepVars, simVars, nonOrchVars>>

\* The agent_call "started" event.
SimCallStarted(r) ==
    /\ orchKind = "simple"
    /\ rpc[r] = "plan_yielded"
    /\ Emit(r, Event("agent_call", "search", "started", << >>, NoData))
    /\ Goto(r, "call_started")
    /\ UNCHANGED <<orchKind, req, stepIdx, agentCalls, active_sessions, cache,
                   caught, swallowed, firstResult, stepVars, simVars, nonOrchVars>>

\* The numbers of papers a search can return.
PaperCounts == 0..MaxPapers

\* What search_literature returns: total_results = len(all_papers).
SearchResult(n) == [src |-> 0, info |-> "search_result", papers |-> n]

\* result.get('total_results', 0)
TotalResults(result) == result.papers

\* f"Found {result.get('total_results', 0)} papers"
FoundMessage(result) == <<"Found ", ToString(TotalResults(result)), " papers">>

SynthesisWithoutCount(r, result) == FinalResult(r, 0)

\* The templated final_result, whose synthesis is
\* f"Found {result.get('total_results', 0)} papers related to '{query}'".
Synthesis(r, result) == FinalResult(r, TotalResults(result))

\* AgentSession.close(): a session stays the agent's session when closed.
CloseSession(sess) == IF sess = "none" THEN "none" ELSE "closed"

\* `if not self.session: self.session = aiohttp.ClientSession()`; a closed
\* ClientSession is still true.
EnsureSession(sess) == IF sess = "none" THEN "open" ELSE sess

\* search_agent.execute("search", ...) up to `self.session.get(url, ...)`:
\* the session is created when the agent has none, and the request is
\* issued on the agent's session.
SimAgentBegin(r) ==
    /\ orchKind = "simple"
    /\ rpc[r] = "call_started"
    /\ Goto(r, "searching")
    /\ search_session' = EnsureSession(search_session)
    /\ issued_on' = [issued_on EXCEPT ![r] = EnsureSession(search_session)]
    /\ using' = using \cup {r}
    /\ UNCHANGED <<orchKind, req, events, stepIdx, agentCalls, active_sessions,
                   cache, caught, swallowed, firstResult, stepVars, nonOrchVars>>

\* search_agent.execute returns a result with n papers ("completed" event,
\* whose data is the result) or raises (the inner handler's error event,
\* f"Search error: {str(e)}").  A request issued on a closed session raises
\* in session.get; _search_arxiv catches it and returns no papers.
SimAgentCall(r, agent, n) ==
    /\ orchKind = "simple"
    /\ rpc[r] = "searching"
    /\ issued_on[r] = "closed" => (agent = "ok" /\ n = 0)
    /\ using' = using \ {r}
    /\ agentCalls' = [agentCalls EXCEPT ![r] = @ + 1]
    /\ IF agent = "ok"
       THEN /\ previous_results' = [previous_results EXCEPT ![r] = <<SearchResult(n)>>]
            /\ Emit(r, Event("agent_call", "search", "completed",
                             FoundMessage(SearchResult(n)), SearchResult(n)))
            /\ Goto(r, "call_completed")
            /\ UNCHANGED swallowed
       ELSE /\ Emit(r, Event("error", "search", "error",
                             <<"Search error: ", "agent failed">>, NoData))
            /\ Goto(r, "search_error_yielded")
            /\ swallowed' = [swallowed EXCEPT ![r] = @ \cup {"agent failed"}]
            /\ UNCHANGED previous_results
    /\ UNCHANGED <<orchKind, req, stepIdx, active_sessions, cache,
                   caught, firstResult, contexts, step_plan, search_session,
                   issued_on, nonOrchVars>>

\* The result event, with the final_result built from `result`.
SimResult(r) ==
    /\ orchKind = "simple"
    /\ rpc[r] = "call_completed"
    /\ Emit(r, Event("result", "orchestrator", "completed", << >>,
                     Synthesis(r, previous_results[r][1])))
    /\ Goto(r, "result_yielded")
    /\ UNCHANGED <<orchKind, req, stepIdx, agentCalls, active_sessions, cache,
                   caught, swallowed, firstResult, stepVars, simVars, nonOrchVars>>

\* The complete event, after the result or after the search error.
SimComplete(r) ==
    /\ orchKind = "simple"
    /\ rpc[r] \in {"result_yielded", "search_error_yielded"}
    /\ Emit(r, Event("complete", "orchestrator", "completed", << >>, NoData))
    /\ Goto(r, "complete_yielded")
    /\ UNCHANGED <<orchKind, req, stepIdx, agentCalls, active_sessions, cache,
                   caught, swallowed, firstResult, stepVars, simVars, nonOrchVars>>

\* The generator is resumed after its last event: the finally block.
SimFinish(r) ==
    /\ orchKind = "simple"
    /\ rpc[r] \in {"complete_yielded", "error_yielded"}
    /\ IF Hashable(req[r].session_id)
       THEN /\ active_sessions' = Cleanup(active_sessions, req[r].session_id)
            /\ search_session' = CloseSession(search_session)
            /\ Goto(r, "done")
       ELSE /\ Goto(r, "propagated")
            /\ UNCHANGED <<active_sessions, search_session>>
    /\ Release(r)
    /\ UNCHANGED <<orchKind, cache, firstResult, using, issued_on, nonOrchVars>>

SimNext ==
    \E r \in 1..MaxRuns :
        \/ \E rq \in SimRequests : SimStart(r, rq)
        \/ SimPlan(r)
        \/ SimCallStarted(r)
        \/ SimAgentBegin(r)
        \/ \E agent \in {"ok", "failed"}, n \in PaperCounts : SimAgentCall(r, agent, n)
        \/ SimResult(r)
        \/ SimComplete(r)
        \/ SimFinish(r)

(***************************************************************************)
(* Cache (app/utils/cache.py), with caching enabled                        *)
(***************************************************************************)
\* settings.CACHE_TTL
CACHE_TTL == 3600

\* `ttl: Optional[int] = None`
NoTtl == -1

\* The ttl arguments: None, 0, and those that can elapse before MaxTime.
TtlInputs == {NoTtl} \cup 0..(MaxTime - 1)

\* The n-th set call stores the value n, so that the calls can be told
\* apart by what they stored.
Values == 1..MaxSets

\* The `default` handed to get; not one of the values.
Default == 0

NoPrefix == ""

\* The (key, prefix) arguments of the operations.
KeyArgs == { <<"k", NoPrefix>>, <<"k", "p">>, <<"p:k", NoPrefix>> }

\* _generate_key: f"{prefix}:{key}" when a prefix is given.
GenerateKey(key, prefix) ==
    IF prefix = NoPrefix THEN key
    ELSE IF key = "k" /\ prefix = "p" THEN "p:k" ELSE "p:p:k"

FullKeys == {"k", "p:k"}

\* full_key.startswith(f"{prefix}:")
StartsWith(full, prefix) == prefix = "p" /\ full = "p:k"

NoEntry == [value |-> 0, expires |-> 0]

Entry(v, exp) == [value |-> v, expires |-> exp]

\* json.dumps / json.loads of the value kept in the remote store
JsonDumps(v) == <<"json", v>>

JsonLoads(s) == s[2]

\* No such key in the remote store.
NoRedisEntry == [value |-> JsonDumps(0), expires |-> 0]

NoGet == [key |-> "", value |-> 0, expires |-> 0, tier |-> "", dropped |-> {}]

NoSet == [key |-> "", value |-> 0, ttl |-> 0, at |-> 0]

CacheStart ==
    /\ now = 0
    /\ redisState \in {"none", "up"}
    /\ redis = [k \in FullKeys |-> NoRedisEntry]
    /\ local_cache = [k \in FullKeys |-> NoEntry]
    /\ files = [k \in FullKeys |-> NoEntry]
    /\ got = NoGet
    /\ lastSet = NoSet
    /\ sets = 0

CacheIdle ==
    /\ now = 0
    /\ redisState = "none"
    /\ redis = [k \in FullKeys |-> NoRedisEntry]
    /\ local_cache = [k \in FullKeys |-> NoEntry]
    /\ files = [k \in FullKeys |-> NoEntry]
    /\ got = NoGet
    /\ lastSet = NoSet
    /\ sets = 0

\* The remote store drops a key when the `ex` given at its set has elapsed.
RedisHolds(k) == redis[k] # NoRedisEntry /\ redis[k].expires > now

Exists(tier, k) == tier[k] # NoEntry

LiveAlways(entry, t) == TRUE

\* `entry["expires"] > datetime.now()`
Live(entry, t) == entry.expires > t

\* `ttl = ttl or self.ttl`
EffectiveTtl(ttl) == IF ttl = NoTtl \/ ttl = 0 THEN CACHE_TTL ELSE ttl

\* Cache.set.  With the remote store connected and answering, the value goes
\* there alone and set returns True; otherwise it goes to the in-process map
\* and to the file, and set returns whether the file was written.
Set(key, prefix, ttl, fileOk) ==
    LET full == GenerateKey(key, prefix)
        value == sets + 1
        expires == now + EffectiveTtl(ttl)
        returned == redisState = "up" \/ fileOk
    IN /\ full \in FullKeys
       /\ got = NoGet
       /\ sets < MaxSets
       /\ sets' = sets + 1
       /\ IF redisState = "up"
          THEN /\ redis' = [redis EXCEPT ![full] = Entry(JsonDumps(value), expires)]
               /\ UNCHANGED <<local_cache, files>>
          ELSE /\ local_cache' = [local_cache EXCEPT ![full] = Entry(value, expires)]
               /\ files' = IF fileOk THEN [files EXCEPT ![full] = Entry(value, expires)]
                           ELSE files
               /\ UNCHANGED redis
       /\ lastSet' = IF returned /\ ttl # NoTtl
                     THEN [key |-> full, value |-> value, ttl |-> ttl, at |-> now]
                     ELSE IF lastSet.key = full THEN NoSet ELSE lastSet
       /\ UNCHANGED <<now, redisState, got, nonCacheVars>>

\* The value get returns for a full key: from the remote store when it
\* answers and holds the key, else from the in-process map, else from the
\* file, each only while live, else the default.
Answer(full) ==
    IF redisState = "up" /\ RedisHolds(full) THEN JsonLoads(redis[full].value)
    ELSE IF Exists(local_cache, full) /\ Live(local_cache[full], now)
         THEN local_cache[full].value
    ELSE IF Exists(files, full) /\ Live(files[full], now)
         THEN files[full].value
    ELSE Default

\* Cache.get: the remote store, then the in-process map, then the file; an
\* expired entry met on the way is removed.
Get(key, prefix) ==
    LET full == GenerateKey(key, prefix)
        fromRedis == redisState = "up" /\ RedisHolds(full)
        localThere == ~fromRedis /\ Exists(local_cache, full)
        fromLocal == localThere /\ Live(local_cache[full], now)
        fileThere == ~fromRedis /\ ~fromLocal /\ Exists(files, full)
        fromFile == fileThere /\ Live(files[full], now)
        dropped == (IF localThere /\ ~fromLocal THEN {"local"} ELSE {})
                      \cup (IF fileThere /\ ~fromFile THEN {"file"} ELSE {})
    IN /\ full \in FullKeys
       /\ got = NoGet
       /\ got' = [key |-> full, dropped |-> dropped,
                  tier |-> IF fromRedis THEN "redis"
                           ELSE IF fromLocal THEN "local"
                           ELSE IF fromFile THEN "file" ELSE "default",
                  value |-> Answer(full),
                  expires |-> IF fromRedis THEN redis[full].expires
                              ELSE IF fromLocal THEN local_cache[full].expires
                              ELSE IF fromFile THEN files[full].expires ELSE 0]
       /\ local_cache' = IF "local" \in dropped
                         THEN [local_cache EXCEPT ![full] = NoEntry] ELSE local_cache
       /\ files' = IF "file" \in dropped
                   THEN [files EXCEPT ![full] = NoEntry] ELSE files
       /\ UNCHANGED <<now, redisState, redis, lastSet, sets, nonCacheVars>>

\* The caller of get has its answer; the next operation can begin.
GetReturns ==
    /\ got # NoGet
    /\ got' = NoGet
    /\ UNCHANGED <<now, redisState, redis, local_cache, files, lastSet, sets,
                   nonCacheVars>>

\* Cache.delete
Delete(key, prefix) ==
    LET full == GenerateKey(key, prefix)
    IN /\ full \in FullKeys
       /\ got = NoGet
       /\ redis' = IF redisState = "up" THEN [redis EXCEPT ![full] = NoRedisEntry] ELSE redis
       /\ local_cache' = [local_cache EXCEPT ![full] = NoEntry]
       /\ files' = [files EXCEPT ![full] = NoEntry]
       /\ lastSet' = IF lastSet.key = full THEN NoSet ELSE lastSet
       /\ UNCHANGED <<now, redisState, got, sets, nonCacheVars>>

\* Cache.clear: with a prefix, the keys of the remote store and of the
\* in-process map that start with it; without one, every tier.
Clear(prefix) ==
    /\ got = NoGet
    /\ IF prefix # NoPrefix
       THEN /\ redis' = IF redisState = "up"
                        THEN [k \in FullKeys |->
                                IF StartsWith(k, prefix) THEN NoRedisEntry ELSE redis[k]]
                        ELSE redis
            /\ local_cache' = [k \in FullKeys |->
                                 IF StartsWith(k, prefix) THEN NoEntry
                                 ELSE local_cache[k]]
            /\ UNCHANGED files
       ELSE /\ redis' = IF redisState = "up"
                        THEN [k \in FullKeys |-> NoRedisEntry] ELSE redis
            /\ local_cache' = [k \in FullKeys |-> NoEntry]
            /\ files' = [k \in FullKeys |-> NoEntry]
    /\ lastSet' = NoSet
    /\ UNCHANGED <<got, now, redisState, sets, nonCacheVars>>

\* Cache.cleanup_expired
CleanupExpired ==
    /\ got = NoGet
    /\ local_cache' = [k \in FullKeys |->
                         IF local_cache[k].expires <= now THEN NoEntry
                         ELSE local_cache[k]]
    /\ files' = [k \in FullKeys |->
                   IF files[k].expires <= now THEN NoEntry ELSE files[k]]
    /\ UNCHANGED <<got, now, redisState, redis, lastSet, sets, nonCacheVars>>

\* Time passes.
Tick ==
    /\ got = NoGet
    /\ now < MaxTime
    /\ now' = now + 1
    /\ UNCHANGED <<got, redisState, redis, local_cache, files, lastSet, sets, nonCacheVars>>

\* The connected remote store stops answering (its calls raise), or answers
\* again.
RedisFlips ==
    /\ got = NoGet
    /\ redisState \in {"up", "down"}
    /\ redisState' = IF redisState = "up" THEN "down" ELSE "up"
    /\ UNCHANGED <<got, now, redis, local_cache, files, lastSet, sets, nonCacheVars>>

CacheNext ==
    \/ \E ka \in KeyArgs, ttl \in TtlInputs, fileOk \in BOOLEAN :
          Set(ka[1], ka[2], ttl, fileOk)
    \/ \E ka \in KeyArgs : Get(ka[1], ka[2])
    \/ GetReturns
    \/ \E ka \in KeyArgs : Delete(ka[1], ka[2])
    \/ \E prefix \in {NoPrefix, "p"} : Clear(prefix)
    \/ CleanupExpired
    \/ Tick
    \/ RedisFlips

(***************************************************************************)
(* The /ws handlers: research_websocket of app/main.py, websocket_endpoint  *)
(* and process_research_request of app/main_enhanced.py, for one connection *)
(***************************************************************************)
\* FEATURE_FLAGS["enhanced_orchestrator"] selects the orchestrator of
\* main_enhanced (lifespan); main.py always has the Standard one.
Gateways == {"main", "main_enhanced"}

\* The connection's client_id (uuid4) in the ConnectionManager.
ClientId == 1

\* The text frames a client can send: a JSON object (a request), a JSON
\* value that is no object, and text that is no JSON.
Malformed == {"json list", "not json"}

WsRequests == IF orchKind = "enhanced" THEN EnhRequests ELSE StdRequests

\* Pings sent on the current wait for a message.
Pings(sent) == Cardinality({i \in 1..Len(sent) : sent[i] = "ping"})

SentError(sent) == \E i \in 1..Len(sent) : sent[i] = "error"

WsStart ==
    /\ gateway \in Gateways
    /\ gateway = "main" => orchKind = "standard"
    /\ orchKind # "simple"
    /\ wsPc = "idle"
    /\ wsMsg = "none"
    /\ wsReq = NoRequest
    /\ wsRun = 0
    /\ wsForwarded = 0
    /\ wsSent = << >>
    /\ wsFailures = 0
    /\ active_connections = {}
    /\ session_data = {}

WsIdle ==
    /\ gateway = "none"
    /\ wsPc = "idle"
    /\ wsMsg = "none"
    /\ wsReq = NoRequest
    /\ wsRun = 0
    /\ wsForwarded = 0
    /\ wsSent = << >>
    /\ wsFailures = 0
    /\ active_connections = {}
    /\ session_data = {}

\* ConnectionManager.disconnect; main.py keeps no registry.
Disconnect(conns, client) == conns \ {client}

\* A client connects: websocket.accept(); main_enhanced registers the client
\* (ConnectionManager.connect) and sends the connection event.
WsConnect ==
    /\ wsPc = "idle"
    /\ wsPc' = "receive"
    /\ IF gateway = "main_enhanced"
       THEN /\ active_connections' = active_connections \cup {ClientId}
            /\ session_data' = session_data \cup {ClientId}
            /\ wsSent' = <<"connection">>
       ELSE UNCHANGED <<active_connections, session_data, wsSent>>
    /\ UNCHANGED <<gateway, wsMsg, wsReq, wsRun, wsForwarded, wsFailures,
                   orchVars, nonWsVars>>

\* What the handler has sent since the last message counts as a failure of
\* that message when it holds an error event.
Failures == IF SentError(wsSent) THEN wsFailures + 1 ELSE wsFailures

\* `except Exception as e:` around the receive loop: one error event, the
\* client is unregistered (main_enhanced), and the handler returns, which
\* closes the socket.
WsOuterExcept(sent) ==
    /\ wsSent' = Append(sent, "error")
    /\ active_connections' = Disconnect(active_connections, ClientId)
    /\ session_data' = Disconnect(session_data, ClientId)
    /\ wsPc' = "closed"

WsInnerMissing(sent) == WsOuterExcept(sent)

\* `except Exception as e:` of process_research_request: the error event
\* ("Processing error: ..."), and the call returns to the receive loop.
WsInnerExcept(sent) ==
    /\ wsSent' = Append(sent, "error")
    /\ wsPc' = "receive"
    /\ UNCHANGED <<active_connections, session_data>>

\* receive_text returns a frame that json.loads rejects, or that parses to
\* a value without .get (main.py) or item assignment by key (main_enhanced):
\* the exception leaves the loop.
WsReceiveMalformed(msg) ==
    /\ wsPc = "receive"
    /\ wsMsg' = msg
    /\ wsFailures' = Failures
    /\ WsOuterExcept(<< >>)
    /\ UNCHANGED <<gateway, wsReq, wsRun, wsForwarded, orchVars, nonWsVars>>

\* receive_text returns a JSON object: the acknowledgment is sent and the
\* handler starts to iterate over orchestrator.process_query(request).
WsReceiveRequest(r, rq) ==
    /\ wsPc = "receive"
    /\ MayBegin(r)
    /\ wsMsg' = "request"
    /\ wsReq' = rq
    /\ wsRun' = r
    /\ wsForwarded' = 0
    /\ wsFailures' = Failures
    /\ wsSent' = <<"acknowledgment">>
    /\ wsPc' = "stream"
    /\ UNCHANGED <<gateway, active_connections, session_data, orchVars, nonWsVars>>

\* The handler awaits the generator's next event.
Awaiting(r) ==
    /\ wsPc = "stream"
    /\ wsRun = r
    /\ wsForwarded = Len(events[r])
    /\ rpc[r] \notin {"done", "propagated"}

\* `async for event in orchestrator.process_query(request)`: the generator
\* is resumed and runs to its next yield, or to its end.
WsAnext(r) ==
    /\ Awaiting(r)
    /\ \/ StdStart(r, wsReq)
       \/ StdPlan(r)
       \/ StdStepStart(r)
       \/ \E agent \in {"ok", "failed"} : StdAgentCall(r, agent)
       \/ \E llm \in {"ok", "failed"} : StdResult(r, llm)
       \/ StdFinish(r)
       \/ EnhStart(r, wsReq)
       \/ EnhCacheCheck(r)
       \/ \E agent \in {"ok", "failed"} : EnhExecute(r, agent)
       \/ EnhScore(r)
       \/ EnhResult(r)
       \/ EnhMetrics(r)
       \/ EnhEnd(r)

\* The loop body: websocket.send_json(event), then the short sleep.
WsForward ==
    /\ wsPc = "stream"
    /\ wsForwarded < Len(events[wsRun])
    /\ wsSent' = Append(wsSent, events[wsRun][wsForwarded + 1].event_type)
    /\ wsForwarded' = wsForwarded + 1
    /\ UNCHANGED <<gateway, wsPc, wsMsg, wsReq, wsRun, wsFailures,
                   active_connections, session_data, orchVars, nonWsVars>>

\* The generator ended: main_enhanced sends the formatted response when a
\* result event was collected and the formatter did not fail; both send the
\* complete event and wait for the next message.
WsComplete(formatted) ==
    /\ wsPc = "stream"
    /\ rpc[wsRun] = "done"
    /\ wsSent' = IF gateway = "main_enhanced" /\ formatted
                    /\ \E i \in 1..Len(wsSent) : wsSent[i] = "result"
                 THEN wsSent \o <<"formatted_response", "complete">>
                 ELSE Append(wsSent, "complete")
    /\ wsPc' = "receive"
    /\ UNCHANGED <<gateway, wsMsg, wsReq, wsRun, wsForwarded, wsFailures,
                   active_connections, session_data, orchVars, nonWsVars>>

\* process_query raised: in main.py the exception leaves the receive loop;
\* in main_enhanced process_research_request catches it.
WsRaised ==
    /\ wsPc = "stream"
    /\ rpc[wsRun] = "propagated"
    /\ IF gateway = "main" THEN WsOuterExcept(wsSent) ELSE WsInnerExcept(wsSent)
    /\ UNCHANGED <<gateway, wsMsg, wsReq, wsRun, wsForwarded, wsFailures,
                   orchVars, nonWsVars>>

\* main_enhanced: no message within the timeout; a ping is sent and the
\* handler waits again.
WsPing ==
    /\ gateway = "main_enhanced"
    /\ wsPc = "receive"
    /\ Pings(wsSent) < MaxPings
    /\ wsSent' = Append(wsSent, "ping")
    /\ UNCHANGED <<gateway, wsPc, wsMsg, wsReq, wsRun, wsForwarded, wsFailures,
                   active_connections, session_data, orchVars, nonWsVars>>

\* The client closes the connection while the handler waits for a message:
\* `except WebSocketDisconnect`.
WsDisconnect ==
    /\ wsPc = "receive"
    /\ wsMsg' = "disconnect"
    /\ wsFailures' = Failures
    /\ wsSent' = << >>
    /\ active_connections' = Disconnect(active_connections, ClientId)
    /\ session_data' = Disconnect(session_data, ClientId)
    /\ wsPc' = "closed"
    /\ UNCHANGED <<gateway, wsReq, wsRun, wsForwarded, orchVars, nonWsVars>>

SendErrors == {"WebSocketDisconnect", "RuntimeError"}

DisconnectSkipped(conns, client) == conns

\* websocket.send_json(event) raises because the peer is gone.  In
\* main_enhanced process_research_request catches it and its own error
\* send_json raises the same; a WebSocketDisconnect then reaches
\* `except WebSocketDisconnect` (the client is unregistered), anything else
\* reaches `except Exception`, whose send_json raises before
\* manager.disconnect.  In main.py the handler's error send raises.  The
\* handler ends with the exception; the generator stays suspended.
WsSendFails(exc) ==
    /\ wsPc = "stream"
    /\ wsForwarded < Len(events[wsRun])
    /\ wsPc' = "closed"
    /\ IF gateway = "main_enhanced" /\ exc = "WebSocketDisconnect"
       THEN /\ active_connections' = Disconnect(active_connections, ClientId)
            /\ session_data' = Disconnect(session_data, ClientId)
       ELSE UNCHANGED <<active_connections, session_data>>
    /\ UNCHANGED <<gateway, wsMsg, wsReq, wsRun, wsForwarded, wsSent, wsFailures,
                   orchVars, nonWsVars>>

ConnNext ==
    \/ WsConnect
    \/ \E msg \in Malformed : WsReceiveMalformed(msg)
    \/ \E r \in RunIds, rq \in WsRequests : WsReceiveRequest(r, rq)
    \/ \E r \in RunIds : WsAnext(r)
    \/ WsForward
    \/ \E formatted \in BOOLEAN : WsComplete(formatted)
    \/ WsRaised
    \/ WsPing
    \/ WsDisconnect
    \/ \E exc \in SendErrors : WsSendFails(exc)

WsNext ==
    \/ WsConnect
    \/ \E msg \in Malformed : WsReceiveMalformed(msg)
    \/ \E r \in RunIds, rq \in WsRequests : WsReceiveRequest(r, rq)
    \/ \E r \in RunIds : WsAnext(r)
    \/ WsForward
    \/ \E formatted \in BOOLEAN : WsComplete(formatted)
    \/ WsRaised
    \/ WsPing
    \/ WsDisconnect

(***************************************************************************)
(* The agents' execute dispatchers (app/agents)                            *)
(***************************************************************************)
Agents == {"search", "simple_search", "summarizer", "citation", "graph"}

\* The "action" enum of each agent's get_parameters.
DeclaredActions(agent) ==
    CASE agent = "search" -> {"search", "search_academic", "expand_query"}
      [] agent = "simple_search" -> {"search"}
      [] agent = "summarizer" -> {"summarize_paper", "summarize_topic", "compare_papers"}
      [] agent = "citation" -> {"verify_citations", "check_facts", "detect_retractions"}
      [] agent = "graph" -> {"build_network", "analyze_trends", "find_communities",
                             "calculate_metrics"}

\* action is None
NoAction == "<None>"

\* The action arguments: every declared action of every agent, the actions
\* TaskPlanner._get_agent_action hands out ("analyze_network" for the graph
\* agent, "execute" for an agent it does not know), the test's
\* "invalid_action", the empty string and None.
ActionInputs ==
    UNION {DeclaredActions(a) : a \in Agents}
       \cup {"analyze_network", "execute", "invalid_action", "", NoAction}

DispatchesAnything(agent) == ActionInputs

\* The actions the if/elif chain of each execute has a branch for.
Dispatches(agent) ==
    CASE agent = "search" -> {"search", "search_academic", "expand_query"}
      [] agent = "simple_search" -> {"search"}
      [] agent = "summarizer" -> {"summarize_paper", "summarize_topic", "compare_papers"}
      [] agent = "citation" -> {"verify_citations", "check_facts", "detect_retractions"}
      [] agent = "graph" -> {"build_network", "analyze_trends", "find_communities",
                             "calculate_metrics"}

\* What the method behind a branch can reach: an LLM call, an HTTP request
\* (which opens the agent's session first when there is none).  An action
\* without a branch of its own is given what the agent's methods reach
\* together; execute reaches none of it for such an action.
Reach(agent, action) ==
    CASE agent = "simple_search" -> {"http"}
      [] agent = "citation" /\ action = "detect_retractions" -> {}
      [] agent = "graph" /\ action \in {"build_network", "calculate_metrics"} -> {}
      [] OTHER -> {"llm"}

KeepsSession == {"simple_search", "citation"}

NoCall == [agent |-> "", action |-> "", outcome |-> "", message |-> << >>]

AgentStart ==
    /\ executes = 0
    /\ openai_calls = 0
    /\ http_requests = 0
    /\ session = [a \in KeepsSession |-> "none"]
    /\ last = NoCall

AgentIdle == AgentStart

\* raise ValueError(f"Unknown action: {action}")
UnknownAction(agent, action) ==
    [agent |-> agent, action |-> action, outcome |-> "ValueError",
     message |-> <<"Unknown action: ", action>>]

\* agent.execute(action, parameters): the branch of the action runs its
\* method, which makes the calls it reaches or none of them (that depends on
\* the parameters) and returns or raises; without a branch, the ValueError.
Execute(agent, action, made, ended) ==
    /\ executes < MaxExecutes
    /\ executes' = executes + 1
    /\ IF action \in Dispatches(agent)
       THEN /\ made \subseteq Reach(agent, action)
            /\ openai_calls' = IF "llm" \in made THEN openai_calls + 1 ELSE openai_calls
            /\ http_requests' = IF "http" \in made THEN http_requests + 1 ELSE http_requests
            /\ session' = IF agent = "simple_search"
                          THEN [session EXCEPT ![agent] = "open"] ELSE session
            /\ last' = [agent |-> agent, action |-> action, outcome |-> ended,
                        message |-> << >>]
       ELSE /\ made = {}
            /\ ended = "raised"
            /\ last' = UnknownAction(agent, action)
            /\ UNCHANGED <<openai_calls, http_requests, session>>
    /\ UNCHANGED nonAgentVars

AgentNext ==
    \E agent \in Agents, action \in ActionInputs,
       made \in SUBSET {"llm", "http"}, ended \in {"returned", "raised"} :
        Execute(agent, action, made, ended)

(***************************************************************************)
(* The Pipeline: POST /query, run_pipeline, WebRetriever.web_search        *)
(***************************************************************************)
mock_urls ==
    << "Artificial_intelligence", "Machine_learning",
       "Natural_language_processing" >>

max_results == 5

\* mock_urls[:self.max_results]
SearchedUrls == SubSeq(mock_urls, 1, IF max_results < Len(mock_urls)
                                     THEN max_results ELSE Len(mock_urls))

\* What one fetch does: trafilatura extracts text, extracts nothing, or raises.
FetchOutcomes == {"content", "empty", "exception"}

\* _get_website_content: `text or ""`, and mock content when the fetch raises.
GetWebsiteContent(url, fetched) ==
    CASE fetched = "content" -> "text"
      [] fetched = "empty" -> ""
      [] fetched = "exception" -> "mock data for development"

NoBody == [has_query |-> FALSE, query |-> "", json |-> FALSE]

\* request.get_json(): nothing, an object without 'query', an object with one.
Bodies ==
    { NoBody, [has_query |-> FALSE, query |-> "", json |-> TRUE] }
        \cup { [has_query |-> TRUE, query |-> q, json |-> TRUE] :
                 q \in {"", "machine learning"} }

NoResponse == [status |-> 0, sources |-> << >>, confidence |-> 0]

\* The result the outer `except` of web_search would return.
FallbackSource(q) == [n |-> 1, title |-> "About", url |-> "fallback", query |-> q]

Source(url) == [url |-> url, title |-> url]

\* _format_sources: "[i] title - url" for each source, in order.
FormatSources(sources) ==
    [i \in 1..Len(sources) |->
        [n |-> i, title |-> sources[i].title, url |-> sources[i].url,
         query |-> ""]]

\* Confidence scores are kept in units of 1/ConfUnit, so that 0.2 * k / 3 and
\* 0.1 * k / 10 are whole numbers.
ConfUnit == 3000

Min(a, b) == IF a < b THEN a ELSE b

\* ResponseComposer._calculate_confidence
ComposerUnclamped(ndocs, nentities, total_results) ==
    1500 + (IF ndocs > 0 THEN 200 * Min(ndocs, 3) ELSE 0)
         + (IF nentities > 0 THEN 30 * Min(nentities, 10) ELSE 0)
         + (IF total_results > 0 THEN 600 ELSE 0)

ComposerConfidence(ndocs, nentities, total_results) ==
    Min(ComposerUnclamped(ndocs, nentities, total_results), ConfUnit)

PipeStart ==
    /\ body = NoBody
    /\ pipePc = "idle"
    /\ urlIdx = 0
    /\ documents = << >>
    /\ web_sources = << >>
    /\ response = NoResponse

PipeIdle == PipeStart

\* query(): `if not data or 'query' not in data` answers 400; otherwise
\* run_pipeline begins and web_search enters its loop.
PostQuery(b) ==
    /\ pipePc = "idle"
    /\ body' = b
    /\ IF ~b.json \/ ~b.has_query
       THEN /\ response' = [status |-> 400, sources |-> << >>, confidence |-> 0]
            /\ pipePc' = "done"
            /\ UNCHANGED urlIdx
       ELSE /\ pipePc' = "search"
            /\ urlIdx' = 1
            /\ UNCHANGED response
    /\ UNCHANGED <<documents, web_sources, nonPipeVars>>

\* One iteration of `for url in mock_urls[:self.max_results]`.
FetchUrl(fetched) ==
    /\ pipePc = "search"
    /\ urlIdx <= Len(SearchedUrls)
    /\ LET url == SearchedUrls[urlIdx]
           content == GetWebsiteContent(url, fetched)
       IN IF content # ""
          THEN /\ documents' = Append(documents, [url |-> url, content |-> content])
               /\ web_sources' = Append(web_sources, Source(url))
          ELSE UNCHANGED <<documents, web_sources>>
    /\ urlIdx' = urlIdx + 1
    /\ UNCHANGED <<body, pipePc, response, nonPipeVars>>

EntityCounts == 0..MaxEntities

\* web_search returns, run_pipeline builds the graph (nentities entities) when
\* there are documents, compose_response formats the sources, and the route
\* answers with status 200.
Respond(nentities) ==
    /\ pipePc = "search"
    /\ urlIdx > Len(SearchedUrls)
    /\ documents = << >> => nentities = 0
    /\ response' =
         [status |-> 200,
          sources |-> FormatSources(web_sources),
          confidence |-> ComposerConfidence(Len(documents), nentities,
                                            Len(documents))]
    /\ pipePc' = "done"
    /\ UNCHANGED <<body, urlIdx, documents, web_sources, nonPipeVars>>

PipeNext ==
    \/ \E b \in Bodies : PostQuery(b)
    \/ \E fetched \in FetchOutcomes : FetchUrl(fetched)
    \/ \E nentities \in EntityCounts : Respond(nentities)

(***************************************************************************)
(* The confidence calculations                                             *)
(***************************************************************************)
\* average_quality is kept in tenths: Quality q stands for q / 10.
Qualities == (0 - MaxQuality)..MaxQuality

NoQuality == MaxQuality + 1

CitationSums == {0, 100, 101}

\* ResponseFormatterAgent._calculate_confidence before the final min.
FormatterUnclamped(source_count, average_quality, citations) ==
    1500 + (IF source_count > 10 THEN 600
            ELSE IF source_count > 5 THEN 300 ELSE 0)
         + (IF average_quality # NoQuality THEN average_quality * 90 ELSE 0)
         + (IF citations > 100 THEN 300 ELSE 0)

\* `return min(score, 1.0)`
FormatterConfidence(source_count, average_quality, citations) ==
    Min(FormatterUnclamped(source_count, average_quality, citations), ConfUnit)

NoCalculation == [fn |-> "none", a |-> 0, b |-> 0, c |-> 0]

ConfStart ==
    /\ conf_input = NoCalculation
    /\ confidence = 0

ConfIdle == ConfStart

\* compose_response's score for web_results with ndocs documents and a
\* total_results entry, and graph_data with nentities entities.
ComposerCalculate(ndocs, nentities, total_results) ==
    /\ conf_input' = [fn |-> "composer", a |-> ndocs, b |-> nentities,
                      c |-> total_results]
    /\ confidence' = ComposerConfidence(ndocs, nentities, total_results)
    /\ UNCHANGED nonConfVars

\* The formatter's score for results with source_count sources whose
\* citation counts sum to citations, and an optional average_quality.
FormatterCalculate(source_count, average_quality, citations) ==
    /\ source_count = 0 => citations = 0
    /\ conf_input' = [fn |-> "formatter", a |-> source_count,
                      b |-> average_quality, c |-> citations]
    /\ confidence' = FormatterConfidence(source_count, average_quality, citations)
    /\ UNCHANGED nonConfVars

ConfNext ==
    \/ \E ndocs \in 0..MaxDocs, nentities \in EntityCounts,
          total_results \in 0..MaxDocs :
           ComposerCalculate(ndocs, nentities, total_results)
    \/ \E source_count \in 0..MaxSources,
          average_quality \in Qualities \cup {NoQuality},
          citations \in CitationSums :
           FormatterCalculate(source_count, average_quality, citations)

(***************************************************************************)
(* TextCleaner.chunk_text                                                  *)
(***************************************************************************)
chunk_size == 1000

chunk_overlap == 200

\* The step of `range(0, len(words), self.chunk_size - self.chunk_overlap)`.
ChunkStride == chunk_size - chunk_overlap

EndIndexUnclamped(i, n) == i + chunk_size

\* 'end_index': min(i + self.chunk_size, len(words))
EndIndex(i, n) == Min(i + chunk_size, n)

\* words[i:i + self.chunk_size] of a list of n words has this many words.
SliceLen(i, n) == IF i >= n THEN 0 ELSE Min(i + chunk_size, n) - i

ChunkStart ==
    /\ words \in 0..MaxWords
    /\ chunkIdx = 0
    /\ chunks = << >>
    /\ chunkPc = "loop"

ChunkIdle ==
    /\ words = 0
    /\ chunkIdx = 0
    /\ chunks = << >>
    /\ chunkPc = "idle"

\* `if not text: return []`, and the loop over an empty range for a text of
\* white space only.
ChunkNothing ==
    /\ chunkPc = "loop"
    /\ chunkIdx >= words
    /\ chunkPc' = "done"
    /\ UNCHANGED <<words, chunkIdx, chunks, nonChunkVars>>

\* One iteration of the loop, with its break.
ChunkStep ==
    /\ chunkPc = "loop"
    /\ chunkIdx < words
    /\ chunks' = Append(chunks, [start_index |-> chunkIdx,
                                 end_index |-> EndIndex(chunkIdx, words),
                                 word_count |-> SliceLen(chunkIdx, words)])
    /\ IF chunkIdx + chunk_size >= words
       THEN chunkPc' = "done" /\ UNCHANGED chunkIdx
       ELSE chunkIdx' = chunkIdx + ChunkStride /\ UNCHANGED chunkPc
    /\ UNCHANGED <<words, nonChunkVars>>

ChunkNext == ChunkNothing \/ ChunkStep

(***************************************************************************)
(* POST /api/research of main_enhanced (research_query)                    *)
(***************************************************************************)
\* How formatter.format_response(..., audience=AudienceType(...),
\* format_type=FormatType(...)) ends for a request: it returns, it raises
\* (format_response logs and re-raises), or the enum constructor rejects the
\* request's "audience" or "format" value.
FormatOutcomes == {"ok", "raises", "invalid audience", "invalid format"}

OK == 200
InternalServerError == 500

RestIdle ==
    /\ restPc = "off"
    /\ restReq = NoRequest
    /\ restRun = 0
    /\ restFormat = "ok"
    /\ rest_results = << >>
    /\ formatted_response = FALSE
    /\ http_status = 0

RestStart ==
    /\ restPc = "idle"
    /\ restReq = NoRequest
    /\ restRun = 0
    /\ restFormat = "ok"
    /\ rest_results = << >>
    /\ formatted_response = FALSE
    /\ http_status = 0

\* A request arrives: results = [], formatted_response = None, and the route
\* starts to iterate over orchestrator.process_query(query_data).
RestPost(r, rq, ending) ==
    /\ restPc \in {"idle", "responded"}
    /\ MayBegin(r)
    /\ restPc' = "stream"
    /\ restReq' = rq
    /\ restRun' = r
    /\ restFormat' = ending
    /\ rest_results' = << >>
    /\ formatted_response' = FALSE
    /\ http_status' = 0
    /\ UNCHANGED <<orchVars, nonRestVars>>

RestAwaiting(r) ==
    /\ restPc = "stream"
    /\ restRun = r
    /\ Len(rest_results) = Len(events[r])
    /\ rpc[r] \notin {"done", "propagated"}

\* `async for event in orchestrator.process_query(query_data)`: the
\* generator is resumed and runs to its next yield, or to its end.
RestAnext(r) ==
    /\ RestAwaiting(r)
    /\ \/ StdStart(r, restReq)
       \/ StdPlan(r)
       \/ StdStepStart(r)
       \/ \E agent \in {"ok", "failed"} : StdAgentCall(r, agent)
       \/ \E llm \in {"ok", "failed"} : StdResult(r, llm)
       \/ StdFinish(r)
       \/ EnhStart(r, restReq)
       \/ EnhCacheCheck(r)
       \/ \E agent \in {"ok", "failed"} : EnhExecute(r, agent)
       \/ EnhScore(r)
       \/ EnhResult(r)
       \/ EnhMetrics(r)
       \/ EnhEnd(r)

\* `except Exception as e: raise HTTPException(status_code=500, ...)`
RestExcept ==
    /\ http_status' = InternalServerError
    /\ restPc' = "responded"

\* The loop body: results.append(event), and for a result event the
\* formatter is called; what it raises leaves the loop.
RestCollect ==
    /\ restPc = "stream"
    /\ Len(rest_results) < Len(events[restRun])
    /\ LET event == events[restRun][Len(rest_results) + 1]
       IN  /\ rest_results' = Append(rest_results, event.event_type)
           /\ IF event.event_type = "result"
              THEN IF restFormat = "ok"
                   THEN /\ formatted_response' = TRUE
                        /\ UNCHANGED <<restPc, http_status>>
                   ELSE /\ RestExcept
                        /\ UNCHANGED formatted_response
              ELSE UNCHANGED <<restPc, http_status, formatted_response>>
    /\ UNCHANGED <<restReq, restRun, restFormat, orchVars, nonRestVars>>

\* The generator ended: `return response_data`.
RestReturn ==
    /\ restPc = "stream"
    /\ rpc[restRun] = "done"
    /\ http_status' = OK
    /\ restPc' = "responded"
    /\ UNCHANGED <<restReq, restRun, restFormat, rest_results, formatted_response,
                   orchVars, nonRestVars>>

\* process_query raised.
RestRaised ==
    /\ restPc = "stream"
    /\ rpc[restRun] = "propagated"
    /\ RestExcept
    /\ UNCHANGED <<restReq, restRun, restFormat, rest_results, formatted_response,
                   orchVars, nonRestVars>>

RestNext ==
    \/ \E r \in RunIds, rq \in WsRequests, ending \in FormatOutcomes :
           RestPost(r, rq, ending)
    \/ \E r \in RunIds : RestAnext(r)
    \/ RestCollect
    \/ RestReturn
    \/ RestRaised

(***************************************************************************)
(* The Pipeline's VectorStore (app/pipeline/vector_store.py)               *)
(***************************************************************************)
\* register_routes creates one ResearchOrchestrator, and with it one
\* VectorStore, for all requests.
SearchK == 5
FallbackDocs == 3

NoVectorResults ==
    [similar_docs |-> {}, total_indexed |-> 0, run_docs |-> 0]

VectorStart ==
    /\ pipeline_runs = 0
    /\ vs_documents = << >>
    /\ vector_results = NoVectorResults

VectorIdle == VectorStart

\* The documents a run retrieves: web_search keeps the pages with content.
RunDocs == 0..Len(SearchedUrls)

\* index.add and documents.extend
Extend(docs, ndocs, run) == docs \o [i \in 1..ndocs |-> run]

\* _search_similar: the positions of the min(k, ntotal) rows nearest to the
\* query's embedding.  The embeddings are seeded by hash(text), which differs
\* from one interpreter start to the next, so any rows can be the nearest.
SearchSimilar(docs, k) ==
    {picked \in SUBSET (1..Len(docs)) : Cardinality(picked) = Min(k, Len(docs))}

\* One run_pipeline call that retrieved ndocs documents: index_documents
\* adds them to the index and searches it when the query is not empty, and
\* returns the first three documents otherwise; without documents the store
\* is not called.
RunPipeline(ndocs, has_query, picked) ==
    /\ pipeline_runs < MaxPipelineRuns
    /\ pipeline_runs' = pipeline_runs + 1
    /\ LET run == pipeline_runs + 1
           docs == Extend(vs_documents, ndocs, run)
       IN  IF ndocs = 0
           THEN /\ picked = {}
                /\ vector_results' = NoVectorResults
                /\ UNCHANGED vs_documents
           ELSE /\ vs_documents' = docs
                /\ IF has_query
                   THEN /\ picked \in SearchSimilar(docs, SearchK)
                        /\ vector_results' =
                               [similar_docs |-> picked,
                                total_indexed |-> Len(docs),
                                run_docs |-> ndocs]
                   ELSE /\ picked = {}
                        /\ vector_results' =
                               [similar_docs |->
                                    {Len(docs) - ndocs + i :
                                        i \in 1..Min(FallbackDocs, ndocs)},
                                total_indexed |-> ndocs,
                                run_docs |-> ndocs]
    /\ UNCHANGED nonVectorVars

VectorNext ==
    \E ndocs \in RunDocs, has_query \in BOOLEAN,
       picked \in SUBSET (1..(MaxPipelineRuns * Len(SearchedUrls))) :
        RunPipeline(ndocs, has_query, picked)

FnIdle == PipeIdle /\ ConfIdle /\ ChunkIdle /\ RestIdle /\ VectorIdle

BackendIdle ==
    PlanIdle /\ ExecIdle /\ OrchIdle /\ CacheIdle /\ WsIdle /\ AgentIdle
    /\ RestIdle /\ VectorIdle

(***************************************************************************)
(* Specifications                                                          *)
(***************************************************************************)
InitPlan == PlanStart /\ ExecIdle /\ OrchIdle /\ CacheIdle /\ WsIdle /\ AgentIdle
    /\ FnIdle

SpecPlan == InitPlan /\ [][PlanNext]_vars

InitExec == ExecStart /\ PlanIdle /\ OrchIdle /\ CacheIdle /\ WsIdle /\ AgentIdle
    /\ FnIdle

SpecExec == InitExec /\ [][ExecNext]_vars

InitOrch == OrchStart /\ PlanIdle /\ ExecIdle /\ CacheIdle /\ WsIdle /\ AgentIdle
    /\ FnIdle

OrchNext == EnhNext \/ StdNext \/ SimNext

SpecOrch == InitOrch /\ [][OrchNext]_vars

InitCache == CacheStart /\ PlanIdle /\ ExecIdle /\ OrchIdle /\ WsIdle /\ AgentIdle
    /\ FnIdle

SpecCache == InitCache /\ [][CacheNext]_vars

InitWs == OrchStart /\ WsStart /\ PlanIdle /\ ExecIdle /\ CacheIdle /\ AgentIdle
    /\ FnIdle

SpecWs == InitWs /\ [][WsNext]_vars

\* The same handlers with a peer that can vanish while events are sent.
SpecConn == InitWs /\ [][ConnNext]_vars

InitAgents == AgentStart /\ PlanIdle /\ ExecIdle /\ OrchIdle /\ CacheIdle /\ WsIdle
    /\ FnIdle

SpecAgents == InitAgents /\ [][AgentNext]_vars

\* main_enhanced serving one client, over /ws or over POST /api/research.
InitGateway ==
    /\ OrchStart /\ PlanIdle /\ ExecIdle /\ CacheIdle /\ AgentIdle
    /\ PipeIdle /\ ConfIdle /\ ChunkIdle /\ VectorIdle
    /\ gateway = "main_enhanced"
    /\ orchKind # "simple"
    /\ wsMsg = "none"
    /\ wsReq = NoRequest
    /\ wsRun = 0
    /\ wsForwarded = 0
    /\ wsSent = << >>
    /\ wsFailures = 0
    /\ active_connections = {}
    /\ session_data = {}
    /\ \/ wsPc = "idle" /\ RestIdle
       \/ wsPc = "closed" /\ RestStart

GatewayNext ==
    \/ WsNext
    \/ RestNext

SpecGateway == InitGateway /\ [][GatewayNext]_vars

InitVector ==
    VectorStart /\ PlanIdle /\ ExecIdle /\ OrchIdle /\ CacheIdle /\ WsIdle
    /\ AgentIdle /\ PipeIdle /\ ConfIdle /\ ChunkIdle /\ RestIdle

SpecVector == InitVector /\ [][VectorNext]_vars

InitPipeline == PipeStart /\ BackendIdle /\ ConfIdle /\ ChunkIdle

SpecPipeline == InitPipeline /\ [][PipeNext]_vars

InitConf == ConfStart /\ BackendIdle /\ PipeIdle /\ ChunkIdle

SpecConf == InitConf /\ [][ConfNext]_vars

InitChunk == ChunkStart /\ BackendIdle /\ PipeIdle /\ ConfIdle

SpecChunk == InitChunk /\ [][ChunkNext]_vars

InitSteps ==
    StepsStart /\ PlanIdle /\ ExecIdle /\ CacheIdle /\ WsIdle /\ AgentIdle /\ FnIdle

SpecSteps == InitSteps /\ [][StepsNext]_vars

(***************************************************************************)
(* Claims about the planner                                                *)
(***************************************************************************)
GroupOf(id) == CHOOSE g \in 1..Len(groups) : \E k \in 1..Len(groups[g]) : groups[g][k] = id

InGroups(id) ==
    Cardinality({ <<g, k>> \in (1..Len(groups)) \X (1..MaxTasks + 5) :
                    k <= Len(groups[g]) /\ groups[g][k] = id })

\* C1: when _create_execution_groups returns, every task is in exactly one
\* group, each of its dependencies that is a task of the list is in a
\* strictly earlier group, and the test's dependency set gives exactly
\* <<A,B>>, <<C,D>>, <<E>>.
C1_Wavefronts ==
    planPc = "done" =>
        /\ \A id \in TaskIds(tasks) : InGroups(id) = 1
        /\ \A i \in 1..Len(tasks) :
             \A d \in tasks[i].dependencies \cap TaskIds(tasks) :
                GroupOf(d) < GroupOf(tasks[i].id)
        /\ (tasks = TestTasks =>
              groups = << <<"A", "B">>, <<"C", "D">>, <<"E">> >>)

(***************************************************************************)
(* Claims about the executor                                               *)
(***************************************************************************)
Finished(t) == tpc[t] \in {"returned", "raised"}

GroupIndexOf(t) == CHOOSE k \in 1..Len(plan) : t \in Members(plan[k])

\* C2: no task of a group has started while a task of an earlier group has
\* neither returned nor failed on its last permitted attempt.
C2_GroupBarrier ==
    \A t \in Planned, u \in Planned :
        (GroupIndexOf(u) < GroupIndexOf(t) /\ tpc[t] # "new") =>
            /\ Finished(u)
            /\ (tpc[u] = "raised" => outcome[u].attempt = max_retries - 1)

\* A task of the second group is running after a first-group task failed
\* for good and another first-group task returned before it.
C2_Witness ==
    /\ Len(plan) >= 2
    /\ \E t \in Members(plan[2]) : tpc[t] = "attempt"
    /\ \E u, v \in Members(plan[1]) :
          /\ u < v
          /\ tpc[u] = "raised"
          /\ tpc[v] = "returned"

\* C3: at most max_retries attempts; the sleeps after the failed attempts
\* 0, 1, ... are 1, 2, ... seconds, one per failed attempt that was not the
\* last permitted one; a return follows the successful attempt at once; and a
\* task that failed for good raises the failure of its last permitted attempt.
C3_Retry ==
    \A t \in Planned :
        /\ calls[t] <= max_retries
        /\ \A i \in 1..Len(slept[t]) : slept[t][i] = 2 ^ (i - 1)
        /\ tpc[t] = "attempt" =>
              /\ Len(slept[t]) = calls[t] - 1
        /\ tpc[t] = "sleep" =>
              /\ Len(slept[t]) = calls[t]
              /\ calls[t] < max_retries
        /\ (tpc[t] = "returned" /\ max_retries > 0) =>
              /\ outcome[t].tag = "result"
              /\ calls[t] = outcome[t].attempt + 1
              /\ Len(slept[t]) = calls[t] - 1
        /\ tpc[t] = "raised" =>
              /\ calls[t] = max_retries
              /\ Len(slept[t]) = max_retries - 1
              /\ outcome[t].tag = "exception"
              /\ outcome[t].attempt = max_retries - 1

\* Three attempts failed, with sleeps of 1 s and 2 s in between.
C3_Witness ==
    \E t \in Planned :
        /\ tpc[t] = "raised"
        /\ calls[t] = 3
        /\ slept[t] = <<1, 2>>
        /\ outcome[t] = Failure("timeout", 2)

\* C4: when execute returns, every planned task has run to its own outcome
\* and has its entry in results: the error entry of its final failure if it
\* failed for good, its result otherwise; tasks outside the plan have none.
C4_FailureIsolated ==
    execPc = "done" =>
        /\ \A t \in Planned :
              /\ Finished(t)
              /\ results[t] # Absent
              /\ tpc[t] = "raised" =>
                    /\ results[t].tag = "error"
                    /\ results[t].kind = outcome[t].kind
                    /\ results[t].attempt = max_retries - 1
              /\ tpc[t] = "returned" => results[t] = outcome[t]
        /\ \A t \in ExecTasks \ Planned : results[t] = Absent

\* execute has returned; the first task of a two-task group failed for good,
\* its sibling returned a result, and a later group ran.
C4_Witness ==
    /\ execPc = "done"
    /\ Len(plan) >= 2
    /\ Len(plan[1]) >= 2
    /\ tpc[plan[1][1]] = "raised"
    /\ results[plan[1][1]].tag = "error"
    /\ results[plan[1][2]].tag = "result"
    /\ \E t \in Members(plan[2]) : results[t].tag = "result"

(***************************************************************************)
(* Claims about process_query                                              *)
(***************************************************************************)
IsPrefix(s, t) == Len(s) <= Len(t) /\ \A i \in 1..Len(s) : s[i] = t[i]

MissEvents == <<"analysis", "plan", "execution", "scoring", "result", "metrics">>

LastEvent(r) == events[r][Len(events[r])]

\* The event call r yields in this step, if it yields one.
Yields(r, type) ==
    /\ Len(events'[r]) = Len(events[r]) + 1
    /\ events'[r][Len(events'[r])].event_type = type

\* The message of an event carries the text of an exception.
Carries(ev, msg) == \E i \in 1..Len(ev.message) : ev.message[i] = msg

Enhanced == orchKind = "enhanced"

StandardOrEnhanced == orchKind \in {"standard", "enhanced"}

StandardOrSimple == orchKind \in {"standard", "simple"}

Raised(r) == (IF caught[r] = "" THEN {} ELSE {caught[r]}) \cup swallowed[r]

C8_ActiveSessions ==
    /\ [](StandardOrSimple =>
            /\ \A s \in SessionIds :
                  active_sessions[s] # 0
                     => \E r \in InFlight : req[r].session_id = s
            /\ InFlight = {} => \A s \in SessionIds : active_sessions[s] = 0)
    /\ [][StandardOrSimple =>
            \A r \in RunIds :
                /\ Yields(r, "start") => active_sessions'[req'[r].session_id] = r
                /\ (rpc'[r] = "done" /\ rpc[r] # "done")
                      => /\ rpc[r] \in {"result_yielded", "complete_yielded",
                                        "error_yielded"}
                         /\ active_sessions'[req[r].session_id] = 0]_vars

\* One call has ended and the other is in flight with its entry in place.
C8_Witness ==
    /\ StandardOrSimple
    /\ \E r, o \in RunIds :
          /\ rpc[r] = "done"
          /\ rpc[o] \in {"result_yielded", "error_yielded", "complete_yielded"}
          /\ Hashable(req[o].session_id)
          /\ active_sessions[req[o].session_id] = o
          /\ \A s \in SessionIds \ {req[o].session_id} : active_sessions[s] = 0

(***************************************************************************)
(* Claims about the Cache                                                  *)
(***************************************************************************)
\* C9: a get of the key of the last set(key, value, ttl=T) that returned
\* True returns value when fewer than T seconds have passed since the set,
\* and the default when T seconds or more have passed, T = 0 included.
C9_TtlHonoured ==
    (got # NoGet /\ lastSet # NoSet /\ got.key = lastSet.key)
       => IF now - lastSet.at < lastSet.ttl
          THEN got.value = lastSet.value
          ELSE got.value = Default

\* C10: a get that returns a stored value returns one whose expiry
\* timestamp is later than the time of the get, whichever tier answered.
C10_NoExpiredValue ==
    (got # NoGet /\ got.tier # "default")
       => /\ got.value \in Values
          /\ got.expires > now

\* A get met an expired entry in the in-process map and in the file, removed
\* both and returned the default.
C10_Witness ==
    /\ got.tier = "default"
    /\ got.value = Default
    /\ got.dropped = {"local", "file"}

(***************************************************************************)
(* Claims about the /ws handlers                                           *)
(***************************************************************************)
Registered == gateway = "main_enhanced" => ClientId \in active_connections

Served == gateway \in Gateways

\* The handler is done with the query of the last message.
QueryOver == wsMsg = "request" /\ wsPc # "stream"

Simple == orchKind = "simple"

SimpleEvents == <<"start", "plan", "agent_call", "agent_call", "result", "complete">>

\* The search of call r returned: its "completed" agent_call event is out.
SearchSucceeded(r) ==
    \E i \in 1..Len(events[r]) :
        events[r][i].event_type = "agent_call" /\ events[r][i].status = "completed"

\* C12: a call of the Simple process_query whose search returned emits
\* start, plan, agent_call (started), agent_call (completed), result and
\* complete, once each and in this order, and nothing else; the completed
\* event's message states the result's paper count N, and the result event's
\* synthesis states the same N; after complete the call ends.
C12_SimpleStream ==
    /\ [](Simple =>
            \A r \in RunIds :
                SearchSucceeded(r)
                   => /\ IsPrefix(EventTypes(r), SimpleEvents)
                      /\ Len(events[r]) >= 4
                      /\ events[r][3].status = "started"
                      /\ events[r][4].status = "completed"
                      /\ events[r][4].message
                            = <<"Found ", ToString(events[r][4].data.papers), " papers">>
                      /\ Len(events[r]) >= 5
                            => events[r][5].data.papers = events[r][4].data.papers
                      /\ rpc[r] = "complete_yielded" => EventTypes(r) = SimpleEvents)
    /\ [][Simple =>
            \A r \in RunIds :
                (SearchSucceeded(r) /\ rpc'[r] # rpc[r])
                   => /\ rpc[r] = "call_completed" => Yields(r, "result")
                      /\ rpc[r] = "result_yielded" => Yields(r, "complete")
                      /\ rpc[r] = "complete_yielded" => rpc'[r] = "done"]_vars

\* A search that found two papers: the whole stream is out, and the
\* synthesis states two papers.
C12_Witness ==
    /\ Simple
    /\ \E r \in RunIds :
          /\ rpc[r] = "complete_yielded"
          /\ EventTypes(r) = SimpleEvents
          /\ events[r][4].data.papers = 2
          /\ events[r][5].data = FinalResult(r, 2)

(***************************************************************************)
(* Claims about the agents                                                 *)
(***************************************************************************)
\* C13: an execute call of any agent with an action outside the agent's
\* declared action set ends with ValueError("Unknown action: <action>"),
\* having made no LLM call and no HTTP request and having left the agent's
\* session as it was.
C13_UnknownAction ==
    [][\A agent \in Agents :
          (executes' = executes + 1 /\ last'.agent = agent
           /\ last'.action \notin DeclaredActions(agent))
             => /\ last'.outcome = "ValueError"
                /\ last'.message = <<"Unknown action: ", last'.action>>
                /\ openai_calls' = openai_calls
                /\ http_requests' = http_requests
                /\ session' = session]_vars

\* The graph agent was given the planner's "analyze_network" after a search
\* of the simple search agent had opened its session and made a request.
C13_Witness ==
    /\ last = UnknownAction("graph", "analyze_network")
    /\ session["simple_search"] = "open"
    /\ http_requests = 1
    /\ openai_calls = 0

(***************************************************************************)
(* Claims about the Pipeline                                               *)
(***************************************************************************)
Answered == pipePc = "done"

NonEmptyQuery == body.json /\ body.has_query /\ body.query # ""

\* C14: POST /query with a non-empty query answers 200 with a non-empty
\* result.sources whatever each page fetch did, and when retrieval yields no
\* document the sources are the synthetic fallback source naming the query.
C14_SourcesNonEmpty ==
    (Answered /\ NonEmptyQuery) =>
        /\ response.status = 200
        /\ response.sources # << >>
        /\ documents = << >> =>
               response.sources = <<FallbackSource(body.query)>>

(***************************************************************************)
(* Claims about the confidence scores                                      *)
(***************************************************************************)
Calculated == conf_input.fn # "none"

\* C15: the confidence computed by compose_response and by the Response
\* Formatter lies in [0.0, 1.0] for any input: any number of sources or
\* documents, any average_quality and any citation counts.
C15_ConfidenceInRange ==
    Calculated => (0 <= confidence /\ confidence <= ConfUnit)

(***************************************************************************)
(* Claims about chunk_text                                                 *)
(***************************************************************************)
Chunked == chunkPc = "done" /\ words >= 1

Covered(p) ==
    \E k \in 1..Len(chunks) :
        chunks[k].start_index <= p /\ p < chunks[k].end_index

\* C16: for a text of n >= 1 words the chunks' [start_index, end_index) ranges
\* cover every word position 0..n-1 without gaps, consecutive chunks start 800
\* words apart, no chunk is longer than 1000 words, and the last chunk ends at
\* n; 1800 words give chunks starting at 0 and 800, the second ending at 1800.
C16_ChunksCover ==
    Chunked =>
        /\ chunks # << >>
        /\ chunks[1].start_index = 0
        /\ \A k \in 1..(Len(chunks) - 1) :
               /\ chunks[k + 1].start_index = chunks[k].start_index + 800
               /\ chunks[k + 1].start_index <= chunks[k].end_index
        /\ \A k \in 1..Len(chunks) :
               /\ chunks[k].end_index - chunks[k].start_index <= 1000
               /\ chunks[k].word_count =
                      chunks[k].end_index - chunks[k].start_index
               /\ chunks[k].word_count >= 1
        /\ chunks[Len(chunks)].end_index = words
        /\ \A p \in 0..(words - 1) : Covered(p)
        /\ words = 1800 =>
               /\ Len(chunks) = 2
               /\ chunks[2].start_index = 800
               /\ chunks[2].end_index = 1800

C16_Witness ==
    /\ chunkPc = "done"
    /\ words = 1800
    /\ Len(chunks) = 2
    /\ chunks[2].end_index = 1800

(***************************************************************************)
(* Claims about the executor's concurrency gate and the Task fields        *)
(***************************************************************************)
\* The tasks of this execute() call that are inside `async with self.semaphore`.
Holders == {t \in ExecTasks : tpc[t] \in {"attempt", "sleep"}}

\* C17: never more than max_concurrent tasks hold the executor's gate, tasks
\* of all groups and of other calls on the same executor counted together, and
\* a task that acquired the gate gives its slot back when it returns or raises.
C17_GateBounded ==
    /\ permits >= 0
    /\ Cardinality(Holders) + others <= max_concurrent
    /\ permits + Cardinality(Holders) + others = max_concurrent
    /\ execPc = "done" => Holders = {}

C17_Witness ==
    /\ permits = 0
    /\ others >= 1
    /\ Holders # {}
    /\ \E t \in ExecTasks : tpc[t] = "acquire"
    /\ \E t \in ExecTasks : tpc[t] = "raised" /\ calls[t] >= 1

\* C18: a Task's result and error are never both set, both are unset until the
\* task's first attempt has started, and once the task has ended with its last
\* permitted attempt failing, its error field holds that failure and its
\* result is still unset.
C18_TaskFields ==
    \A t \in ExecTasks :
        /\ ~(taskObj[t].result # None /\ taskObj[t].error # None)
        /\ calls[t] = 0 => (taskObj[t].result = None /\ taskObj[t].error = None)
        /\ tpc[t] = "raised" =>
               /\ taskObj[t].error = outcome[t]
               /\ taskObj[t].result = None

(***************************************************************************)
(* Claims about error events and plan steps                                *)
(***************************************************************************)
IsError(e) == e.event_type = "error"

\* An error event of the outermost handler of process_query.
IsOuterError(e) == IsError(e) /\ e.agent = "orchestrator"

\* C19 as stated: in one process_query stream an error event is terminal; at
\* most one is emitted and no agent_call, tool_use, result or complete event
\* follows it.
C19_ErrorTerminal ==
    \A r \in RunIds : \A i \in 1..Len(events[r]) :
        IsError(events[r][i]) => i = Len(events[r])

\* C19 amended: the error event of the outermost handler (agent
\* "orchestrator") is terminal: a stream holds at most one and nothing follows
\* it.  The error event of a failed step or search carries that agent's name
\* and the stream goes on after it.
C19_OuterErrorTerminal ==
    \A r \in RunIds : \A i \in 1..Len(events[r]) :
        IsOuterError(events[r][i]) => i = Len(events[r])

C19_Witness ==
    \E r \in RunIds :
        /\ Len(events[r]) >= 3
        /\ IsOuterError(events[r][Len(events[r])])
        /\ \E i \in 1..(Len(events[r]) - 1) : IsError(events[r][i])

StepsDone == rpc[StepRun] = "steps_done"

Runs(step) == IsAgentStep(step) \/ IsToolStep(step)

Returned(i) ==
    \E k \in 1..Len(previous_results[StepRun]) :
        previous_results[StepRun][k].src = i

Started(i) ==
    Event(IF step_plan[i].tool = "stats" THEN "tool_use" ELSE "agent_call",
          StepName(step_plan[i]), "started", << >>, NoData)

Completed(i) ==
    Event(IF step_plan[i].tool = "stats" THEN "tool_use" ELSE "agent_call",
          StepName(step_plan[i]), "completed", << >>, StepResult(i))

RECURSIVE PairsUpTo(_)
PairsUpTo(i) ==
    IF i = 0 THEN << >> ELSE PairsUpTo(i - 1) \o <<Started(i), Completed(i)>>

RECURSIVE StepEventsUpTo(_)
StepEventsUpTo(i) ==
    IF i = 0 THEN << >>
    ELSE StepEventsUpTo(i - 1) \o
         ( IF ~Runs(step_plan[i]) THEN << >>
           ELSE IF Returned(i) THEN <<Started(i), Completed(i)>>
           ELSE <<Started(i),
                  Event("error", StepName(step_plan[i]), "error",
                        <<"failed">>, NoData)>> )

\* The steps that reached their execute call, in plan order.
CalledSteps ==
    SelectSeq([i \in 1..Len(step_plan) |-> i], LAMBDA i : Runs(step_plan[i]))

ResultsBefore(i) ==
    SelectSeq(previous_results[StepRun], LAMBDA res : res.src < i)

\* C20 as stated: every plan step (of a plan naming registered agents and
\* tools) yields exactly two events, started then completed, agent_call for an
\* agent step and tool_use for a tool step, in plan order, and step i receives
\* as context exactly the results of steps 1..i-1 in that order.
C20_StepPairs ==
    (StepsDone /\ \A i \in 1..Len(step_plan) : Runs(step_plan[i])) =>
        /\ events[StepRun] = PairsUpTo(Len(step_plan))
        /\ Len(contexts[StepRun]) = Len(step_plan)
        /\ \A i \in 1..Len(step_plan) :
               contexts[StepRun][i] = [k \in 1..(i - 1) |-> StepResult(k)]

\* C20 amended: steps run in plan order; a step whose agent or tool call
\* returns yields started then completed (agent_call or tool_use); a step
\* whose call raises yields started then an error event and adds no result; a
\* step naming no registered agent or tool yields nothing; and each called
\* step receives as context the results of the earlier steps that returned,
\* in plan order.
C20_StepEvents ==
    StepsDone =>
        /\ events[StepRun] = StepEventsUpTo(Len(step_plan))
        /\ Len(contexts[StepRun]) = Len(CalledSteps)
        /\ \A j \in 1..Len(CalledSteps) :
               contexts[StepRun][j] = ResultsBefore(CalledSteps[j])
        /\ \A k \in 1..Len(previous_results[StepRun]) :
               /\ Runs(step_plan[previous_results[StepRun][k].src])
               /\ k > 1 => previous_results[StepRun][k - 1].src
                               < previous_results[StepRun][k].src

C20_Witness ==
    /\ StepsDone
    /\ Len(step_plan) = 3
    /\ ~Returned(1) /\ Returned(2) /\ Returned(3)
    /\ step_plan[3].tool = "stats"
    /\ contexts[StepRun] = << << >>, << >>, <<StepResult(2)>> >>

(***************************************************************************)
(* Claims about the Cache's tiers                                          *)
(***************************************************************************)
\* The last set that returned True is still within its TTL (of T >= 1).
SetStillLive ==
    lastSet # NoSet /\ lastSet.ttl >= 1 /\ now - lastSet.at < lastSet.ttl

\* C21: after set(key, value) returned True the entry is in the in-process
\* map and in the file tier as well as in the remote store, so that a get
\* before the TTL elapses returns value even when the remote store has become
\* unreachable.
C21_AllTiersWritten ==
    SetStillLive =>
        /\ local_cache[lastSet.key].value = lastSet.value
        /\ files[lastSet.key].value = lastSet.value
        /\ (got # NoGet /\ got.key = lastSet.key) => got.value = lastSet.value

Prefixed(prefix) == {k \in FullKeys : StartsWith(k, prefix)}

\* C22: after clear(prefix) returns, a get of any key set under the prefix
\* returns the default, whichever tier held it, and the keys of other
\* prefixes answer as before.
C22_ClearRemovesPrefix ==
    [][Clear("p") =>
          /\ \A k \in Prefixed("p") : Answer(k)' = Default
          /\ \A k \in FullKeys \ Prefixed("p") : Answer(k)' = Answer(k)]_vars

(***************************************************************************)
(* Claims about the enhanced gateway's connection manager                  *)
(***************************************************************************)
EnhancedGateway == gateway = "main_enhanced"

\* C23: in the enhanced gateway active_connections and session_data hold the
\* same client ids, a client's record exists from its connect on while its
\* handler runs, and once the handler has ended, for whatever reason (client
\* disconnect, malformed message, failure while sending), neither map holds
\* the client id.
C23_NoStaleClient ==
    EnhancedGateway =>
        /\ active_connections = session_data
        /\ wsPc \in {"receive", "stream"} =>
               (ClientId \in active_connections /\ ClientId \in session_data)
        /\ wsPc = "closed" =>
               (ClientId \notin active_connections /\ ClientId \notin session_data)

(***************************************************************************)
(* C24: formatter failures are swallowed                                   *)
(***************************************************************************)
HasResult(sent) == \E i \in 1..Len(sent) : sent[i] = "result"

\* The /ws query is over, its generator ended, a result event was forwarded
\* and no formatted_response followed: the formatter failed.
WsFormatterFailed ==
    /\ gateway = "main_enhanced"
    /\ wsPc = "receive"
    /\ wsMsg = "request"
    /\ rpc[wsRun] = "done"
    /\ HasResult(wsSent)
    /\ \A i \in 1..Len(wsSent) : wsSent[i] # "formatted_response"

NotPing(e) == e # "ping"

\* The acknowledgment, every event of the orchestrator, complete; then only
\* the pings of the wait for the next message.
WsRawDelivered ==
    LET sent == SelectSeq(wsSent, NotPing)
    IN  /\ Len(sent) = wsForwarded + 2
        /\ sent[Len(sent)] = "complete"

\* The route has answered a request whose result the formatter was given
\* and failed on.
RestFormatterFailed ==
    /\ restPc = "responded"
    /\ restFormat # "ok"
    /\ HasResult(rest_results)

RestRawDelivered ==
    /\ http_status = OK
    /\ rpc[restRun] = "done"

\* C24: when the formatter fails for a request of the enhanced gateway, the
\* /ws client has received every orchestrator event followed by complete and
\* nothing else, and POST /api/research has answered 200 with the events it
\* collected.
C24_FormatterFailureSwallowed ==
    /\ WsFormatterFailed => WsRawDelivered
    /\ RestFormatterFailed => RestRawDelivered

\* The /ws half of C24 alone.
C24_WsFormatterFailureSwallowed == WsFormatterFailed => WsRawDelivered

(***************************************************************************)
(* C25: documents are held for one pipeline run only                       *)
(***************************************************************************)
\* The last run indexed documents and searched them.
Searched == pipeline_runs > 0 /\ vector_results.run_docs > 0

\* C25: after a run of the Pipeline, the vector-similarity results hold only
\* documents retrieved in that run, and the index holds as many documents as
\* that run indexed.
C25_RunScopedDocuments ==
    Searched =>
        /\ \A i \in vector_results.similar_docs : vs_documents[i] = pipeline_runs
        /\ Len(vs_documents) = vector_results.run_docs

(***************************************************************************)
(* C26: the Simple Search Agent's HTTP session                             *)
(***************************************************************************)
\* C26: on a Simple orchestrator, every arXiv request is issued on an open
\* session, and the session is not closed while a call's request is in
\* flight on it.
C26_OpenSessionOnly ==
    Simple =>
        /\ \A r \in RunIds : issued_on[r] # "closed"
        /\ search_session = "closed" => using = {}

\* The two halves of C26.
C26_NoReuseAfterClose == Simple => \A r \in RunIds : issued_on[r] # "closed"

C26_NoCloseInFlight == Simple => (search_session = "closed" => using = {})

(***************************************************************************)
(* C27: concurrent calls on the Standard orchestrator                      *)
(***************************************************************************)
StandardOrch == orchKind = "standard"

\* The call has written its session entry and has events of its steps to
\* append to it.
StillAppends(r) ==
    /\ rpc[r] \in {"start_yielded", "plan_yielded", "step_started", "step_yielded"}
    /\ req[r].query # NoQuery

\* C27: concurrent process_query calls on a Standard orchestrator do not
\* interfere: the session entry of a call is in the map for as long as the
\* call appends to it, and no call ends in the KeyError event that a call
\* running alone never emits.
C27_NoInterference ==
    StandardOrch =>
        \A r \in RunIds :
            /\ StillAppends(r) => active_sessions[req[r].session_id] # 0
            /\ caught[r] # "KeyError"

(***************************************************************************)
(* C28: the actions the TaskPlanner hands to the agents                    *)
(***************************************************************************)
\* QueryAnalyzer._detect_intent
Intents == {"search", "summarize", "analyze", "verify"}

\* QueryAnalyzer._suggest_agents, for a detected intent, the request's
\* "action" parameter and whether str(entities) holds "citation" or
\* "network".
SuggestAgents(intent, param, network) ==
    LET agents ==
            (IF intent \in {"search", "analyze"} THEN <<"search">> ELSE << >>)
         \o (IF intent = "summarize" \/ param = "summarize"
             THEN <<"summarizer">> ELSE << >>)
         \o (IF intent = "verify" \/ param = "verify"
             THEN <<"citation">> ELSE << >>)
         \o (IF network THEN <<"graph">> ELSE << >>)
    IN  IF agents # << >> THEN agents ELSE <<"search">>

\* TaskPlanner._get_agent_action
GetAgentAction(agent) ==
    CASE agent = "search" -> "search"
      [] agent = "summarizer" -> "summarize_topic"
      [] agent = "citation" -> "verify_citations"
      [] agent = "graph" -> "analyze_network"
      [] OTHER -> "execute"

\* The (agent, action) pairs of the tasks create_plan can build.
PlannedPairs ==
    UNION { { <<SuggestAgents(intent, param, network)[i],
                GetAgentAction(SuggestAgents(intent, param, network)[i])>> :
                 i \in 1..Len(SuggestAgents(intent, param, network)) } :
            intent \in Intents, param \in {"", "search", "summarize", "verify"},
            network \in BOOLEAN }

\* C28: an agent that is given the action the TaskPlanner plans for it does
\* not answer with "Unknown action".
C28_PlannedActionsAccepted ==
    <<last.agent, last.action>> \in PlannedPairs => last.outcome # "ValueError"

(***************************************************************************)
(* C29: what the Enhanced orchestrator caches                              *)
(***************************************************************************)
FailedRunYieldsResult(r) == Yields(r, "result") /\ TasksFailed(r)

\* C29 as stated: a run of the Enhanced orchestrator in which every task
\* failed leaves the cache unchanged.
C29_StoreOnlyOnSuccess ==
    [][Enhanced => \A r \in RunIds : FailedRunYieldsResult(r) => cache' = cache]_vars

Stored(r) == cache[CacheKey(req[r])] # NoData

\* C29, amended: a run of the Enhanced orchestrator that reaches its result
\* event stores its final result under the request's cache key also when
\* every task failed, and a call that finds its key stored is answered with
\* cache_hit.
C29_StoreRegardless ==
    [][Enhanced =>
         \A r \in RunIds :
            /\ FailedRunYieldsResult(r)
                  => /\ cache'[CacheKey(req[r])] = events'[r][Len(events'[r])].data
                     /\ cache'[CacheKey(req[r])].src = r
            /\ (rpc[r] = "analysis_yielded" /\ Stored(r) /\ rpc'[r] # rpc[r])
                  => Yields(r, "cache_hit")]_vars

\* A run whose tasks failed has yielded its result, the cache holds its
\* payload, and a later call with the same key was answered from it.
C29_Witness ==
    /\ Enhanced
    /\ \E r \in RunIds, later \in RunIds :
          /\ rpc[r] = "result_yielded"
          /\ TasksFailed(r)
          /\ cache[CacheKey(req[r])].src = r
          /\ later > r
          /\ rpc[later] = "hit_yielded"
          /\ CacheKey(req[later]) = CacheKey(req[r])
          /\ events[later][Len(events[later])].data.src = r

(***************************************************************************)
(* C30: _create_execution_groups terminates                                *)
(***************************************************************************)
\* The loop condition holds and the pass it starts adds no task: the next
\* iteration finds the same `executed`, and so does every one after it.
NoProgress ==
    /\ planPc = "loop"
    /\ Cardinality(executed) < Len(tasks)
    /\ ForTasks(tasks, 1, << >>, executed).executed = executed

\* C30: _create_execution_groups terminates for every task list: its loop
\* never reaches an iteration that leaves `executed` as it was.
C30_Terminates == ~NoProgress
====
